---- MODULE Spec2Model ----
(***************************************************************************)
(* A model of the mini-framework: the reactive store (framework/state.js), *)
(* the renderer and mount controller (framework/mini.js), and the to-do    *)
(* application wired on top of them (app/app.js).                          *)
(***************************************************************************)
EXTENDS Integers, Sequences, FiniteSets, TLC

(***************************************************************************)
(* Bounds of the model.                                                    *)
(***************************************************************************)
MaxTasks == 1        \* longest task list a store operation may produce
MaxDepth == 1        \* deepest wrapper nesting an operation may leave in storage
MaxSubs == 2         \* most callbacks ever subscribed
WriterBudget == 1    \* writes a writing subscriber performs per operation

MaxEvents == 4       \* events a page, or a router, handles in one run
MaxObjs == MaxTasks + 4   \* heap slots: root, task array, filter result, tasks

(***************************************************************************)
(* JavaScript values.  k is the type tag; n the payload of a boolean,      *)
(* number or object reference; s the payload of a string; d the number of  *)
(* Proxy layers wrapped around the object n (0: the raw object).           *)
(***************************************************************************)
Null == [k |-> "null", n |-> 0, s |-> "", d |-> 0]
Undef == [k |-> "undef", n |-> 0, s |-> "", d |-> 0]
Bool(b) == [k |-> "bool", n |-> IF b THEN 1 ELSE 0, s |-> "", d |-> 0]
Num(i) == [k |-> "num", n |-> i, s |-> "", d |-> 0]
Str(x) == [k |-> "str", n |-> 0, s |-> x, d |-> 0]
Obj(id, depth) == [k |-> "obj", n |-> id, s |-> "", d |-> depth]

\* JavaScript truthiness of a value
Truthy(v) ==
    CASE v.k = "null" -> FALSE
      [] v.k = "undef" -> FALSE
      [] v.k = "bool" -> v.n = 1
      [] v.k = "num" -> v.n # 0
      [] v.k = "str" -> v.s # ""
      [] OTHER -> TRUE

\* property keys: a named field, an array index, or "length"
Fld(name) == [s |-> name, i |-> 0]
Idx(i) == [s |-> "#", i |-> i]
LengthKey == Fld("length")

(***************************************************************************)
(* The heap of raw objects.  Slot 0 is the object literal given to         *)
(* makeReactive; slot 1 its tasks array.                                   *)
(***************************************************************************)
ObjIds == 0 .. (MaxObjs - 1)
RootId == 0
NoFields == [x \in {} |-> Null]
FreeObj == [kind |-> "free", f |-> NoFields, items |-> <<>>]
MapObj(f) == [kind |-> "map", f |-> f, items |-> <<>>]
ArrObj(items) == [kind |-> "arr", f |-> NoFields, items |-> items]

\* the object literal of state.js with its empty tasks array
InitialHeap ==
    [id \in ObjIds |->
        IF id = RootId
        THEN MapObj([x \in {"tasks", "filter", "editingId", "currentId"} |->
                CASE x = "tasks" -> Obj(1, 0)
                  [] x = "filter" -> Str("all")
                  [] x = "editingId" -> Null
                  [] x = "currentId" -> Num(1)])
        ELSE IF id = 1 THEN ArrObj(<<>>) ELSE FreeObj]

\* target[key] on a raw object
RawGet(h, id, key) ==
    LET o == h[id] IN
    IF o.kind = "arr"
    THEN IF key = LengthKey THEN Num(Len(o.items))
         ELSE IF key.s = "#" /\ key.i < Len(o.items) THEN o.items[key.i + 1]
         ELSE Undef
    ELSE IF key.s \in DOMAIN o.f THEN o.f[key.s] ELSE Undef

\* target[key] = value on a raw object
RawSet(h, id, key, v) ==
    LET o == h[id] IN
    IF o.kind = "arr"
    THEN IF key = LengthKey
         THEN [h EXCEPT ![id].items = SubSeq(o.items, 1, v.n)]
         ELSE IF key.i < Len(o.items)
              THEN [h EXCEPT ![id].items[key.i + 1] = v]
              ELSE [h EXCEPT ![id].items = Append(o.items, v)]
    ELSE [h EXCEPT ![id].f =
            [x \in (DOMAIN o.f) \cup {key.s} |-> IF x = key.s THEN v ELSE o.f[x]]]

\* delete target[key] on a raw object: an array keeps its length, with a hole
RawDelete(h, id, key) ==
    LET o == h[id] IN
    IF o.kind = "arr"
    THEN IF key.s = "#" /\ key.i < Len(o.items)
         THEN [h EXCEPT ![id].items[key.i + 1] = Undef]
         ELSE h
    ELSE [h EXCEPT ![id].f = [x \in (DOMAIN o.f) \ {key.s} |-> o.f[x]]]

\* typeof value === 'object' && value !== null
IsObject(v) == v.k = "obj"

\* new Proxy(obj, ...): one more layer around the same object
makeReactive(v) == [v EXCEPT !.d = @ + 1]

\* the target a handle was built over
Target(hd) == [hd EXCEPT !.d = @ - 1]

(***************************************************************************)
(* Descriptors and live nodes (framework/mini.js).  A descriptor is the    *)
(* record createVNode builds; its attrs are the entries of the attrs       *)
(* object in insertion order; a function value is [k |-> "fn"] with the    *)
(* function's name in s and what it captured in n and d.                   *)
(***************************************************************************)
Fn(name, captured) == [k |-> "fn", n |-> captured.n, s |-> name, d |-> captured.d]
EmptyObject == [k |-> "object", n |-> 0, s |-> "", d |-> 0]
Attr(key, val) == [key |-> key, val |-> val]

\* a builder that takes one child instead of the rest of its arguments
createVNodeOneChild(tag, attrs, children) ==
    [tag |-> tag, attrs |-> attrs,
     children |-> IF children = <<>> THEN <<>> ELSE <<Head(children)>>]

\* export function createVNode(tag, attrs = {}, ...children)
createVNode(tag, attrs, children) ==
    [tag |-> tag, attrs |-> attrs, children |-> children]

IsRecordWithTag(v) == "tag" \in DOMAIN v

\* a JavaScript Array of values, and Array.isArray(v)
Array(items) == [arr |-> items]
IsArray(v) == ~IsRecordWithTag(v) /\ "arr" \in DOMAIN v

\* typeof v
TypeOf(v) ==
    IF IsRecordWithTag(v) \/ IsArray(v) THEN "object"
    ELSE CASE v.k = "str" -> "string"
           [] v.k = "num" -> "number"
           [] v.k = "bool" -> "boolean"
           [] v.k = "undef" -> "undefined"
           [] v.k = "fn" -> "function"
           [] OTHER -> "object"

\* String(v), as createTextNode and setAttribute convert their argument
Digit == <<"0", "1", "2", "3", "4", "5", "6", "7", "8", "9">>
RECURSIVE NumStr(_)
NumStr(n) == IF n < 10 THEN Digit[n + 1] ELSE NumStr(n \div 10) \o Digit[(n % 10) + 1]
JsString(v) ==
    CASE v.k = "str" -> v.s
      [] v.k = "num" -> NumStr(v.n)
      [] v.k = "bool" -> IF v.n = 1 THEN "true" ELSE "false"
      [] v.k = "null" -> "null"
      [] v.k = "undef" -> "undefined"
      [] OTHER -> "[" \o v.k \o "]"

\* key.startsWith('on') and key.toLowerCase(), on the keys descriptors use
OnKeys == {"onclick", "onClick", "onchange", "ondblclick", "onkeydown", "onblur"}
StartsWithOn(key) == key \in OnKeys
ToLowerCase(key) == IF key = "onClick" THEN "onclick" ELSE key

\* key in el: the properties a live element of this tag exposes
ElementProps(tag) ==
    {"id", "className", "style", "title", "hidden",
     "onclick", "onchange", "ondblclick", "onkeydown", "onblur"}
    \cup (IF tag = "input"
          THEN {"type", "value", "checked", "placeholder", "autofocus", "disabled"}
          ELSE {})
    \cup (IF tag = "a" THEN {"href", "target"} ELSE {})
    \cup (IF tag = "button" THEN {"type", "value", "disabled", "autofocus"} ELSE {})
    \cup (IF tag = "li" THEN {"value"} ELSE {})

\* document.createElement(tag) and document.createTextNode(data); ep stamps the
\* mount that allocated the node
NoProps == [x \in {} |-> Null]
NoAttrs == [x \in {} |-> ""]
Element(tag, ep) ==
    [k |-> "el", tag |-> tag, attrs |-> NoAttrs, props |-> NoProps, kids |-> <<>>,
     ep |-> ep]
TextNode(data, ep) == [k |-> "text", data |-> data, ep |-> ep]

SetKey(f, key, val) ==
    [x \in (DOMAIN f) \cup {key} |-> IF x = key THEN val ELSE f[x]]

\* the event handler properties of an element, each reflecting the content
\* attribute of the same name
EventHandlers == {"onclick", "onchange", "ondblclick", "onkeydown", "onblur"}

\* the function the browser compiles from an event handler content attribute
Compiled(source) == [k |-> "fn", n |-> 0, s |-> "attr:" \o source, d |-> 0]

\* el[key] = value: an event handler property takes a non-object as null
AssignProperty(el, key, value) ==
    [el EXCEPT !.props =
        SetKey(@, key, IF key \in EventHandlers /\ TypeOf(value) \notin {"function", "object"}
                       THEN Null ELSE value)]

\* el.setAttribute(key, value): the name is lower-cased, the value converted to
\* a string, and an event handler attribute sets the element's handler
SetAttribute(el, key, value) ==
    [el EXCEPT !.attrs = SetKey(@, ToLowerCase(key), JsString(value)),
               !.props = IF ToLowerCase(key) \in EventHandlers
                         THEN SetKey(@, ToLowerCase(key), Compiled(JsString(value)))
                         ELSE @]

\* the body of the loop over Object.entries(vnode.attrs) (mini.js 14-22)
ApplyAttr(el, key, value) ==
    IF StartsWithOn(key) /\ TypeOf(value) = "function"
    THEN [el EXCEPT !.props = SetKey(@, ToLowerCase(key), value)]
    ELSE IF key \in ElementProps(el.tag)
         THEN AssignProperty(el, key, value)
         ELSE SetAttribute(el, key, value)

RECURSIVE ApplyAttrs(_, _, _)
ApplyAttrs(el, attrs, i) ==
    IF i > Len(attrs) THEN el
    ELSE ApplyAttrs(ApplyAttr(el, attrs[i].key, attrs[i].val), attrs, i + 1)

\* export function render(vnode) (mini.js 7-29).  The result is [ok, node]:
\* ok is FALSE when the call throws (reading .tag of null or undefined).
RECURSIVE render(_, _)
RECURSIVE RenderChildren(_, _, _, _)

\* (vnode.children || []).forEach(child => el.appendChild(render(child)))
RenderChildren(el, children, i, ep) ==
    IF i > Len(children) THEN [ok |-> TRUE, node |-> el]
    ELSE LET r == render(children[i], ep) IN
         IF ~r.ok THEN [ok |-> FALSE, node |-> el]
         ELSE RenderChildren([el EXCEPT !.kids = Append(@, r.node)], children, i + 1, ep)

render(vnode, ep) ==
    IF TypeOf(vnode) \in {"string", "number"}
    THEN [ok |-> TRUE, node |-> TextNode(JsString(vnode), ep)]
    ELSE IF ~IsRecordWithTag(vnode)
         THEN IF ~IsArray(vnode) /\ vnode.k \in {"null", "undef"}
              THEN [ok |-> FALSE, node |-> TextNode("", ep)]
              ELSE [ok |-> TRUE, node |-> Element("undefined", ep)]
         ELSE RenderChildren(ApplyAttrs(Element(vnode.tag, ep), vnode.attrs, 1),
                             vnode.children, 1, ep)

\* !node || typeof node !== 'object' || !node.tag (mini.js 38, 46)
InvalidVNode(v) ==
    IF IsRecordWithTag(v) THEN v.tag = ""
    ELSE TRUE

(***************************************************************************)
(* export function mount(root, vnode) (mini.js 31-51).  kids are the       *)
(* children of the root before the call.  The result is [kids, res, at]:   *)
(* the children of the root afterwards, how the call ended ("ok", or the   *)
(* message of the error thrown), and the index forEach had reached.        *)
(***************************************************************************)
\* root instanceof Element (mini.js 32), on the values a caller may pass as root:
\* document.body, an element created and never attached, a text node, and null
InstanceOfElement(root) == root \in {"body", "detached"}

RECURSIVE MountEach(_, _, _, _)
\* a forEach that puts each rendered node in front of those before it
MountEachReversed(kids, vnodes, i, ep) ==
    IF i > Len(vnodes) THEN [kids |-> kids, res |-> "ok", at |-> 0]
    ELSE IF InvalidVNode(vnodes[i])
         THEN [kids |-> kids, res |-> "Invalid vnode structure in array", at |-> i]
         ELSE LET r == render(vnodes[i], ep) IN
              IF ~r.ok THEN [kids |-> kids, res |-> "TypeError", at |-> i]
              ELSE MountEach(<<r.node>> \o kids, vnodes, i + 1, ep)

\* vnode.forEach(node => {check; root.appendChild(render(node))})
MountEach(kids, vnodes, i, ep) ==
    IF i > Len(vnodes) THEN [kids |-> kids, res |-> "ok", at |-> 0]
    ELSE IF InvalidVNode(vnodes[i])
         THEN [kids |-> kids, res |-> "Invalid vnode structure in array", at |-> i]
         ELSE LET r == render(vnodes[i], ep) IN
              IF ~r.ok THEN [kids |-> kids, res |-> "TypeError", at |-> i]
              ELSE MountEach(Append(kids, r.node), vnodes, i + 1, ep)

\* a mount that accepts any root
mountAnyRoot(root, vnode, kids, ep) ==
    IF IsArray(vnode) THEN MountEach(<<>>, vnode.arr, 1, ep)
    ELSE IF InvalidVNode(vnode)
         THEN [kids |-> <<>>, res |-> "Invalid vnode structure", at |-> 0]
         ELSE LET r == render(vnode, ep) IN
              IF ~r.ok THEN [kids |-> <<>>, res |-> "TypeError", at |-> 0]
              ELSE [kids |-> <<r.node>>, res |-> "ok", at |-> 0]

\* a mount that does not clear the root
mountAppending(root, vnode, kids, ep) ==
    IF ~InstanceOfElement(root)
    THEN [kids |-> kids, res |-> "Root must be a DOM Element", at |-> 0]
    ELSE IF IsArray(vnode) THEN MountEach(kids, vnode.arr, 1, ep)
         ELSE IF InvalidVNode(vnode)
              THEN [kids |-> kids, res |-> "Invalid vnode structure", at |-> 0]
              ELSE LET r == render(vnode, ep) IN
                   IF ~r.ok THEN [kids |-> kids, res |-> "TypeError", at |-> 0]
                   ELSE [kids |-> Append(kids, r.node), res |-> "ok", at |-> 0]

mount(root, vnode, kids, ep) ==
    IF ~InstanceOfElement(root)
    THEN [kids |-> kids, res |-> "Root must be a DOM Element", at |-> 0]
    ELSE \* root.innerHTML = ''
         IF IsArray(vnode) THEN MountEach(<<>>, vnode.arr, 1, ep)
         ELSE IF InvalidVNode(vnode)
              THEN [kids |-> <<>>, res |-> "Invalid vnode structure", at |-> 0]
              ELSE LET r == render(vnode, ep) IN
                   IF ~r.ok THEN [kids |-> <<>>, res |-> "TypeError", at |-> 0]
                   ELSE [kids |-> <<r.node>>, res |-> "ok", at |-> 0]

(***************************************************************************)
(* State of the program.                                                   *)
(***************************************************************************)
VARIABLES
    heap,          \* the raw objects behind the exported state
    subscribers,   \* state.js: let subscribers = []
    log,           \* history: subscriber calls made by the last operation
    hist,          \* history: what the last operation did
    dom,           \* the children of document.body
    epoch,         \* history: the stamp of the last mount call
    mnt,           \* history: the last mount call, its result, the children before it
    currentRoute,  \* router.js: let currentRoute = ''
    events,        \* history: how many events the page has handled
    held,          \* the values a client has read from the store and still holds
    routeChangeCallback,   \* router.js: let routeChangeCallback = null
    window         \* the browser window: location.hash without '#', onhashchange

\* the window of a page loaded without a fragment, before any script has run
NoWindow == [hash |-> "", onhashchange |-> "null"]

\* export const state = makeReactive({...}): one Proxy around the literal
state == makeReactive(Obj(RootId, 0))

(***************************************************************************)
(* The get trap (state.js 13-18).  Reading through a handle reads through  *)
(* its target and wraps an object result in a new Proxy.                   *)
(***************************************************************************)
RECURSIVE getTrap(_, _, _)

\* target[key], where the target is a raw object or itself a Proxy
TargetGet(h, t, key) ==
    IF t.d = 0 THEN RawGet(h, t.n, key) ELSE getTrap(h, t, key)

\* a get trap that tests typeof value === 'object' only, and so wraps null
getTrapWrapsNull(h, hd, key) ==
    LET value == TargetGet(h, Target(hd), key) IN
    IF value.k \in {"obj", "null"} THEN makeReactive(value) ELSE value

getTrap(h, hd, key) ==
    LET value == TargetGet(h, Target(hd), key) IN
    IF IsObject(value) THEN makeReactive(value) ELSE value

\* state.tasks
TasksOf(h) == getTrap(h, state, Fld("tasks"))

\* callbacks of which the one app() filters with keeps every task
SelectedWhateverFilter(h, pred, t) ==
    CASE pred.p = "notId" -> getTrap(h, t, Fld("id")) # Num(pred.id)
      [] pred.p = "active" -> ~Truthy(getTrap(h, t, Fld("completed")))
      [] pred.p = "completed" -> Truthy(getTrap(h, t, Fld("completed")))
      [] OTHER -> TRUE

\* the callbacks given to filter: a predicate on an element read from the handle
Selected(h, pred, t) ==
    CASE pred.p = "notId" -> getTrap(h, t, Fld("id")) # Num(pred.id)
      [] pred.p = "active" -> ~Truthy(getTrap(h, t, Fld("completed")))
      [] pred.p = "completed" -> Truthy(getTrap(h, t, Fld("completed")))
      [] pred.p = "visible" ->
            LET f == getTrap(h, state, Fld("filter")) IN
            IF f = Str("active") THEN ~Truthy(getTrap(h, t, Fld("completed")))
            ELSE IF f = Str("completed") THEN Truthy(getTrap(h, t, Fld("completed")))
            ELSE TRUE
      [] OTHER -> TRUE

\* the elements Array.prototype.filter keeps: each is read through the handle
RECURSIVE FilterItems(_, _, _, _)
FilterItems(h, arr, pred, k) ==
    IF k >= getTrap(h, arr, LengthKey).n THEN <<>>
    ELSE LET kValue == getTrap(h, arr, Idx(k))
         IN (IF Selected(h, pred, kValue) THEN <<kValue>> ELSE <<>>)
            \o FilterItems(h, arr, pred, k + 1)

(***************************************************************************)
(* The router (framework/router.js) as far as the view reads it.           *)
(***************************************************************************)
\* the comparison without the clause for 'all' (as in router.js 54-58)
isActiveRouteExact(current, route) ==
    LET normalizedRoute == IF route = "/" THEN "" ELSE route
        normalizedCurrent == IF current = "/" THEN "" ELSE current
    IN normalizedCurrent = normalizedRoute

\* export function isActiveRoute(route) (router.js 26-30)
isActiveRoute(current, route) ==
    LET normalizedRoute == IF route = "/" THEN "" ELSE route
        normalizedCurrent == IF current = "/" THEN "" ELSE current
    IN \/ normalizedCurrent = normalizedRoute
       \/ normalizedCurrent = "" /\ normalizedRoute = "all"

(***************************************************************************)
(* The view of the to-do application (app/app.js 34-236): descriptors      *)
(* built from what is read through the exported state.  The static text    *)
(* below the sidebar and the info footer is left out.                      *)
(***************************************************************************)
\* function capFirstLetter(str), on the three filter names
capFirstLetter(str) ==
    CASE str = "all" -> "All"
      [] str = "active" -> "Active"
      [] str = "completed" -> "Completed"
      [] OTHER -> str

sidebar == createVNode("aside", <<Attr("class", Str("learn"))>>, <<>>)
footer == createVNode("footer", <<Attr("class", Str("info"))>>, <<>>)

\* function taskItem(task) (app.js 129-182); task is the handle filter read
taskItem(h, task) ==
    LET id == getTrap(h, task, Fld("id"))
        completed == getTrap(h, task, Fld("completed"))
        name == getTrap(h, task, Fld("name"))
        isEditing == getTrap(h, state, Fld("editingId")) = id
        class == (IF Truthy(completed) THEN "completed" ELSE "") \o " "
                 \o (IF isEditing THEN "editing" ELSE "")
    IN createVNode("li",
         <<Attr("data-id", Str(JsString(id))), Attr("class", Str(class))>>,
         <<createVNode("div", <<Attr("class", Str("view"))>>,
             <<createVNode("input",
                 <<Attr("type", Str("checkbox")), Attr("class", Str("toggle")),
                   Attr("checked", completed), Attr("onchange", Fn("toggle", task))>>,
                 <<>>),
               createVNode("label", <<Attr("ondblclick", Fn("startEdit", task))>>,
                           <<name>>),
               createVNode("button",
                 <<Attr("class", Str("destroy")), Attr("onclick", Fn("destroy", task))>>,
                 <<>>)>>),
           IF isEditing
           THEN createVNode("input",
                  <<Attr("class", Str("edit")), Attr("value", name),
                    Attr("autofocus", Bool(TRUE)), Attr("onblur", Fn("editBlur", task)),
                    Attr("onkeydown", Fn("editKeydown", task))>>,
                  <<>>)
           ELSE Bool(FALSE)>>)

\* function infoFooter() (app.js 184-214)
infoFooter(h, route) ==
    LET all == FilterItems(h, TasksOf(h), [p |-> "all"], 0)
        activeCount == Len(FilterItems(h, TasksOf(h), [p |-> "active"], 0))
        some == Len(FilterItems(h, TasksOf(h), [p |-> "completed"], 0)) > 0
        link(f) == createVNode("li", <<>>,
                     <<createVNode("a",
                         <<Attr("href", Str("/#" \o f)),
                           Attr("class", Str(IF isActiveRoute(route, f)
                                             THEN "selected" ELSE ""))>>,
                         <<Str(capFirstLetter(f))>>)>>)
    IN IF getTrap(h, TasksOf(h), LengthKey).n = 0 THEN Str("")
       ELSE createVNode("footer",
              <<Attr("class", Str("footer")), Attr("style", Str("display: block;"))>>,
              <<createVNode("span", <<Attr("class", Str("todo-count"))>>,
                  <<createVNode("strong", <<>>, <<Str(JsString(Num(activeCount)))>>),
                    Str(" item" \o (IF activeCount # 1 THEN "s" ELSE "") \o " left")>>),
                createVNode("ul", <<Attr("class", Str("filters"))>>,
                  <<link("all"), link("active"), link("completed")>>),
                createVNode("button",
                  <<Attr("class", Str("clear-completed")),
                    Attr("style", Str(IF some THEN "display: block;"
                                      ELSE "display: none;")),
                    Attr("onclick", Fn("clearCompleted", Null))>>,
                  <<Str("Clear Completed")>>)>>)

\* function mainSection(visibleTasks) (app.js 76-127)
mainSection(h, route, visibleTasks) ==
    createVNode("section", <<Attr("class", Str("todoapp"))>>,
      <<createVNode("header", <<Attr("class", Str("header"))>>,
          <<createVNode("h1", <<>>, <<Str("todos")>>),
            createVNode("input",
              <<Attr("type", Str("text")), Attr("class", Str("new-todo")),
                Attr("placeholder", Str("What needs to be done?")),
                Attr("autofocus", Str("")),
                Attr("onkeydown", Fn("newTodoKeydown", Null))>>,
              <<>>)>>),
        createVNode("main",
          <<Attr("class", Str("main")), Attr("style", Str("display: block"))>>,
          <<createVNode("div", <<Attr("class", Str("toggle-all-container"))>>,
              <<createVNode("input",
                  <<Attr("class", Str("toggle-all")), Attr("type", Str("checkbox"))>>,
                  <<>>),
                createVNode("label",
                  <<Attr("class", Str("toggle-all-label")), Attr("for", Str("toggle-all")),
                    Attr("onclick", Fn("toggleAll", Null))>>,
                  <<Str("Mark all as complete")>>)>>),
            createVNode("ul", <<Attr("class", Str("todo-list"))>>,
              [i \in 1 .. Len(visibleTasks) |-> taskItem(h, visibleTasks[i])])>>),
        infoFooter(h, route)>>)

\* function app() (app.js 34-49)
app(h, route) ==
    IF getTrap(h, state, Fld("filter")) = Str("notfound")
    THEN createVNode("h1", <<Attr("class", Str("not-found"))>>,
                     <<Str("404 - Page Not Found")>>)
    ELSE LET visibleTasks == FilterItems(h, TasksOf(h), [p |-> "visible"], 0)
         IN Array(<<sidebar, mainSection(h, route, visibleTasks), footer>>)

(***************************************************************************)
(* The set trap and notify (state.js 3-5, 19-23), in store-passing style.  *)
(* A store st carries the heap and the history of the running operation:   *)
(*   log     subscriber calls and round ends, in the order they happen     *)
(*   lvl     how many subscriber calls are on the stack                    *)
(*   rc      notification rounds started so far                            *)
(*   sets    set-trap invocations so far                                   *)
(*   budget  writes each writing subscriber may still perform              *)
(*   back    whether a Proxy has been stored into a raw object             *)
(***************************************************************************)
SubKinds == {"count", "writer"}

\* an update that renders only for the first notification of a handler
updateOnce(st) ==
    IF st.renders > 0 THEN st
    ELSE [st EXCEPT !.dom = mount("body", app(st.heap, st.route), @, 0).kids,
                    !.renders = @ + 1]

\* the ids of state.tasks, in order, as a callback reading the store sees them
IdsRead(h) ==
    [i \in 1 .. getTrap(h, TasksOf(h), LengthKey).n |->
        getTrap(h, getTrap(h, TasksOf(h), Idx(i - 1)), Fld("id"))]

\* function update() (app.js 17-31): mount(document.body, app())
update(st) ==
    [st EXCEPT !.dom = mount("body", app(st.heap, st.route), @, 0).kids,
               !.renders = @ + 1,
               !.reads = Append(@, IdsRead(st.heap))]

Event(t, i, r, l, args, ok) ==
    [t |-> t, sub |-> i, round |-> r, lvl |-> l, nargs |-> args, stored |-> ok]

RECURSIVE setTrap(_, _, _, _)
RECURSIVE notifyFrom(_, _, _, _)

\* target[key] = value (state.js 20), where the target is raw or a Proxy
TargetSet(st, t, key, value) ==
    IF t.d = 0
    THEN [st EXCEPT !.heap = RawSet(@, t.n, key, value),
                    !.back = @ \/ value.d > 0]
    ELSE setTrap(st, t, key, value)

\* the body of a subscribed callback
RunSubscriber(st, i) ==
    CASE subscribers[i] = "writer" /\ st.budget[i] > 0 ->
            setTrap([st EXCEPT !.budget[i] = @ - 1], state, Fld("editingId"), Null)
      [] subscribers[i] = "render" -> update(st)
      [] OTHER -> st

\* fn(): one callback invoked with no argument
CallSubscriber(st, i, r, w) ==
    LET ok == RawGet(st.heap, w.id, w.key) = w.val
        s1 == [st EXCEPT !.log = Append(@, Event("call", i, r, st.lvl + 1, 0, ok)),
                         !.lvl = @ + 1]
        s2 == RunSubscriber(s1, i)
    IN [s2 EXCEPT !.lvl = @ - 1]

\* subscribers.forEach(fn => fn()), from index i on
notifyFrom(st, i, r, w) ==
    IF i > Len(subscribers)
    THEN [st EXCEPT !.log = Append(@, Event("end", 0, r, st.lvl, 0, TRUE))]
    ELSE notifyFrom(CallSubscriber(st, i, r, w), i + 1, r, w)

\* a notify that runs no round while a round is already running
notifyGuarded(st, w) ==
    IF st.lvl > 0 THEN st
    ELSE notifyFrom([st EXCEPT !.rc = @ + 1], 1, st.rc + 1, w)

\* a notify that runs one round per operation, however many writes it makes
notifyBatched(st, w) ==
    IF st.rc > 0 /\ st.lvl = 0 THEN st
    ELSE notifyFrom([st EXCEPT !.rc = @ + 1], 1, st.rc + 1, w)

\* notify(): one round over the subscriber list; w is what the caller wrote
notify(st, w) ==
    notifyFrom([st EXCEPT !.rc = @ + 1], 1, st.rc + 1, w)

\* a set trap that does not notify when the value written is the value stored
setTrapUnlessEqual(st, hd, key, value) ==
    LET s1 == TargetSet(st, Target(hd), key, value)
    IN IF TargetGet(st.heap, Target(hd), key) = value
       THEN [s1 EXCEPT !.sets = @ + 1]
       ELSE notify([s1 EXCEPT !.sets = @ + 1],
                   [id |-> hd.n, key |-> key, val |-> value])

\* a set trap that notifies before it stores
setTrapNotifyFirst(st, hd, key, value) ==
    LET s1 == notify([st EXCEPT !.sets = @ + 1],
                     [id |-> hd.n, key |-> key, val |-> value])
    IN TargetSet(s1, Target(hd), key, value)

\* a set trap that notifies without storing
setTrapNoStore(st, hd, key, value) ==
    notify([st EXCEPT !.sets = @ + 1], [id |-> hd.n, key |-> key, val |-> value])

setTrap(st, hd, key, value) ==
    LET s1 == TargetSet(st, Target(hd), key, value)
    IN notify([s1 EXCEPT !.sets = @ + 1],
              [id |-> hd.n, key |-> key, val |-> value])

(***************************************************************************)
(* Operations a handler performs on the store.  Array methods are the      *)
(* sequences of [[Get]] and [[Set]] the language runs on the handle they   *)
(* are called on, so each of their writes passes through the set trap.     *)
(***************************************************************************)
\* a [[Set]] performed by the handler itself (not by a trap or a subscriber)
HandlerSet(st, hd, key, value) ==
    setTrap([st EXCEPT !.top = @ + 1], hd, key, value)

\* the lowest free heap slot
Alloc(h) == CHOOSE id \in ObjIds :
                /\ h[id].kind = "free"
                /\ \A j \in ObjIds : j < id => h[j].kind # "free"

\* the object literal {id, name, completed: false}
TaskLiteral(id, name) ==
    MapObj([x \in {"id", "name", "completed"} |->
              CASE x = "id" -> Num(id)
                [] x = "name" -> Str(name)
                [] x = "completed" -> Bool(FALSE)])

\* Array.prototype.push called on handle arr with one argument
ArrayPush(st, arr, x) ==
    LET len == getTrap(st.heap, arr, LengthKey).n
        s1 == HandlerSet(st, arr, Idx(len), x)
    IN HandlerSet(s1, arr, LengthKey, Num(len + 1))

\* the move loop of Array.prototype.unshift: element k-1 goes to k, downwards
RECURSIVE UnshiftMove(_, _, _)
UnshiftMove(st, arr, k) ==
    IF k = 0 THEN st
    ELSE LET fromValue == getTrap(st.heap, arr, Idx(k - 1))
         IN UnshiftMove(HandlerSet(st, arr, Idx(k), fromValue), arr, k - 1)

\* Array.prototype.unshift called on handle arr with one argument
ArrayUnshift(st, arr, x) ==
    LET len == getTrap(st.heap, arr, LengthKey).n
        s1 == UnshiftMove(st, arr, len)
        s2 == HandlerSet(s1, arr, Idx(0), x)
    IN HandlerSet(s2, arr, LengthKey, Num(len + 1))

\* delete handle[key]: the handler has no deleteProperty trap, so the operation
\* reaches the raw object directly (through every Proxy layer of the handle)
HandlerDelete(st, hd, key) ==
    [st EXCEPT !.heap = RawDelete(@, hd.n, key)]

\* Array.prototype.pop called on handle arr
ArrayPop(st, arr) ==
    LET len == getTrap(st.heap, arr, LengthKey).n
    IN IF len = 0
       THEN HandlerSet(st, arr, LengthKey, Num(0))
       ELSE HandlerSet(HandlerDelete(st, arr, Idx(len - 1)), arr, LengthKey,
                       Num(len - 1))

\* garbage collection (moving): what the root reaches is kept, the tasks array in
\* slot 1 and its elements after it in array order; an address is never observed
Collect(h) ==
    LET arr == h[h[RootId].f["tasks"].n]
        n == Len(arr.items)
    IN [id \in ObjIds |->
          IF id = RootId THEN [h[RootId] EXCEPT !.f["tasks"] = Obj(1, 0)]
          ELSE IF id = 1
               THEN ArrObj([j \in 1 .. n |-> Obj(j + 1, arr.items[j].d)])
          ELSE IF id - 1 \in 1 .. n THEN h[arr.items[id - 1].n]
          ELSE FreeObj]

\* state.tasks = state.tasks.filter(pred): a new plain array of what was read
FilterAssign(st, pred) ==
    LET kept == FilterItems(st.heap, TasksOf(st.heap), pred, 0)
        a == Alloc(st.heap)
        s1 == [st EXCEPT !.heap[a] = ArrObj(kept)]
    IN HandlerSet(s1, state, Fld("tasks"), Obj(a, 0))

\* state.tasks.push({...}) and state.tasks.unshift({...}) with a fresh literal
PushTask(st, id, name) ==
    LET a == Alloc(st.heap)
        s1 == [st EXCEPT !.heap[a] = TaskLiteral(id, name)]
    IN ArrayPush(s1, TasksOf(s1.heap), Obj(a, 0))

UnshiftTask(st, id, name) ==
    LET a == Alloc(st.heap)
        s1 == [st EXCEPT !.heap[a] = TaskLiteral(id, name)]
    IN ArrayUnshift(s1, TasksOf(s1.heap), Obj(a, 0))

\* state.tasks[i].completed = b: a write three levels deep
SetCompleted(st, i, b) ==
    LET task == getTrap(st.heap, TasksOf(st.heap), Idx(i))
    IN HandlerSet(st, task, Fld("completed"), Bool(b))

\* state.filter = v: a top-level write
SetFilter(st, v) == HandlerSet(st, state, Fld("filter"), Str(v))

(***************************************************************************)
(* Views of the storage used by guards and properties.                     *)
(***************************************************************************)
RawTasks(h) == h[h[RootId].f["tasks"].n].items
NumTasks(h) == Len(RawTasks(h))
TaskField(h, i, x) == h[RawTasks(h)[i].n].f[x]
TaskIds(h) == {TaskField(h, i, "id").n : i \in 1 .. NumTasks(h)}
MaxOf(S) == CHOOSE d \in S : \A e \in S : e <= d
\* the deepest wrapper stored in a raw object (0: storage holds plain objects only)
StoredDepth(h) == MaxOf({0} \cup {RawTasks(h)[i].d : i \in 1 .. NumTasks(h)})

\* a clear-completed handler that always starts the counter again
ResetCurrentIdToOne(st) ==
    HandlerSet(st, state, Fld("currentId"), Num(1))

\* state.currentId = state.tasks.length > 0 ? Math.max(...ids) + 1 : 1
ResetCurrentId(st) ==
    LET tasks == TasksOf(st.heap)
        len == getTrap(st.heap, tasks, LengthKey).n
        ids == {getTrap(st.heap, getTrap(st.heap, tasks, Idx(i)), Fld("id")).n :
                    i \in 0 .. len - 1}
    IN HandlerSet(st, state, Fld("currentId"),
                  Num(IF len > 0 THEN MaxOf(ids) + 1 ELSE 1))

\* the clear-completed handler of app.js 208-211: two writes in one handler
ClearCompleted(st) == ResetCurrentId(FilterAssign(st, [p |-> "active"]))

(***************************************************************************)
(* The store driven by a client: callbacks are subscribed, and handlers    *)
(* perform operations on the exported state.                               *)
(***************************************************************************)
Names == {"buy milk"}
Filters == {"all", "active"}

\* whether filter with this predicate would store a wrapper deeper than MaxDepth
KeepsWithin(h, pred) ==
    \A i \in 1 .. NumTasks(h) :
        Selected(h, pred, makeReactive(RawTasks(h)[i])) => RawTasks(h)[i].d < MaxDepth

StoreOps(h) ==
    [name : {"setFilter"}, i : {0}, b : {FALSE}, v : Filters]
    \cup [name : {"setCompleted"}, i : 0 .. NumTasks(h) - 1, b : BOOLEAN, v : {""}]
    \cup {o \in [name : {"push", "unshift"}, i : {0}, b : {FALSE}, v : Names] :
            /\ NumTasks(h) < MaxTasks
            /\ (o.name = "unshift") => StoredDepth(h) < MaxDepth}
    \cup {o \in [name : {"clearCompleted"}, i : {0}, b : {FALSE}, v : {""}] :
            KeepsWithin(h, [p |-> "active"])}

RunOp(st, op) ==
    CASE op.name = "setFilter" -> SetFilter(st, op.v)
      [] op.name = "setCompleted" -> SetCompleted(st, op.i, op.b)
      [] op.name = "push" -> PushTask(st, NumTasks(st.heap) + 1, op.v)
      [] op.name = "unshift" -> UnshiftTask(st, NumTasks(st.heap) + 1, op.v)
      [] op.name = "clearCompleted" -> ClearCompleted(st)
      [] op.name = "pop" -> ArrayPop(st, TasksOf(st.heap))
      [] op.name = "deleteField" -> HandlerDelete(st, state, Fld(op.v))

\* the store an operation starts from
Start(h) ==
    [heap |-> h, log |-> <<>>, lvl |-> 0, rc |-> 0, sets |-> 0, top |-> 0,
     budget |-> [i \in 1 .. Len(subscribers) |-> WriterBudget], back |-> FALSE,
     dom |-> dom, route |-> currentRoute, renders |-> 0, reads |-> <<>>]

\* the value an operation is about to overwrite equals the value it writes
SameValue(h, op) ==
    \/ op.name = "setFilter" /\ h[RootId].f["filter"] = Str(op.v)
    \/ op.name = "setCompleted" /\ TaskField(h, op.i + 1, "completed") = Bool(op.b)
    \/ op.name = "deleteField" /\ op.v \notin DOMAIN h[RootId].f

NoMount ==
    [root |-> "none", arg |-> Null, res |-> "none", at |-> 0, prev |-> <<>>,
     out |-> <<>>]
NoOp ==
    [op |-> "none", same |-> FALSE, deep |-> FALSE, top |-> 0, sets |-> 0,
     renders |-> 0, n |-> 0, initial |-> FALSE, val |-> Null, reads |-> <<>>]

StoreInit ==
    /\ heap = InitialHeap
    /\ subscribers = <<>>
    /\ log = <<>>
    /\ hist = NoOp
    /\ dom = <<>>
    /\ epoch = 0
    /\ mnt = NoMount
    /\ currentRoute = ""
    /\ events = 0
    /\ held = <<>>
    /\ routeChangeCallback = "null"
    /\ window = NoWindow

\* export function subscribe(fn)
subscribe(fn) ==
    /\ Len(subscribers) < MaxSubs
    /\ subscribers' = Append(subscribers, fn)
    /\ log' = <<>>
    /\ hist' = NoOp
    /\ UNCHANGED <<heap, dom, epoch, mnt, currentRoute, routeChangeCallback, window, events, held>>

\* one operation of a handler, with every notification round it causes
Operation(op) ==
    /\ \E st \in {RunOp(Start(heap), op)} :
          /\ heap' = Collect(st.heap)
          /\ log' = st.log
          /\ hist' = [op |-> op.name, same |-> SameValue(heap, op),
                      deep |-> StoredDepth(heap) > 0, top |-> st.top,
                      sets |-> st.sets, renders |-> st.renders,
                      n |-> NumTasks(heap), initial |-> heap = InitialHeap,
                      val |-> IF op.name = "setCompleted" THEN Bool(op.b) ELSE Null,
                      reads |-> st.reads]
    /\ held' = <<>>
    /\ UNCHANGED <<subscribers, dom, epoch, mnt, currentRoute, routeChangeCallback, window, events>>

vars ==
    <<heap, subscribers, log, hist, dom, epoch, mnt, currentRoute, events, held,
      routeChangeCallback, window>>

StoreNext ==
    \/ \E fn \in SubKinds : subscribe(fn)
    \/ \E op \in StoreOps(heap) : Operation(op)

SpecStore == StoreInit /\ [][StoreNext]_vars

(***************************************************************************)
(* The same client with every kind of mutation the language offers on the  *)
(* handle: writes, array methods, and delete.                              *)
(***************************************************************************)
MutateOps(h) ==
    StoreOps(h)
    \cup [name : {"pop"}, i : {0}, b : {FALSE}, v : {""}]
    \cup [name : {"deleteField"}, i : {0}, b : {FALSE}, v : {"editingId"}]

MutateNext ==
    \/ \E fn \in SubKinds : subscribe(fn)
    \/ \E op \in MutateOps(heap) : Operation(op)

SpecMutate == StoreInit /\ [][MutateNext]_vars

(***************************************************************************)
(* Properties of the store.                                                *)
(***************************************************************************)
CallsOf(l, i) == Cardinality({j \in 1 .. Len(l) : l[j].t = "call" /\ l[j].sub = i})
RoundsOf(l) == {l[j].round : j \in 1 .. Len(l)}
RoundCalls(l, r) == SelectSeq(l, LAMBDA e : e.t = "call" /\ e.round = r)
Positions(l, r) == {j \in 1 .. Len(l) : l[j].round = r}
MinOf(S) == CHOOSE d \in S : \A e \in S : d <= e
AllCount == \A i \in 1 .. Len(subscribers) : subscribers[i] = "count"

\* every round of the log calls subscribers 1..n, each once, in that order, and ends
RoundsComplete(l) ==
    \A r \in RoundsOf(l) :
        /\ Len(RoundCalls(l, r)) = Len(subscribers)
        /\ \A i \in 1 .. Len(subscribers) : RoundCalls(l, r)[i].sub = i
        /\ l[MaxOf(Positions(l, r))].t = "end"

\* C1: with one (non-writing) callback subscribed, one property write through the
\* handle calls it exactly once: a top-level write always, a write three levels
\* deep when the storage holds plain objects, and also when the value is unchanged
C1_SingleWriteNotifiesOnce ==
    (/\ subscribers = <<"count">>
     /\ \/ hist.op = "setFilter"
        \/ hist.op = "setCompleted" /\ ~hist.deep)
    => CallsOf(log, 1) = 1

C1_Witness ==
    /\ subscribers = <<"count">>
    /\ hist.op = "setCompleted" /\ ~hist.deep /\ hist.same
    /\ CallsOf(log, 1) = 1

\* C2: after values read from the store were stored back into it, one write
\* task.completed = v through a handle read from state.tasks calls each
\* subscriber exactly once
C2_ExactlyOnceAfterWriteBack ==
    (hist.op = "setCompleted" /\ hist.deep /\ AllCount)
    => \A i \in 1 .. Len(subscribers) : CallsOf(log, i) = 1

\* C3: on every write the storage holds the new value when the first subscriber
\* runs, every subscriber is called within the write, in subscription order, with
\* no argument
C3_WriteThenNotifyInOrder ==
    hist.op # "none" =>
        /\ \A j \in 1 .. Len(log) :
              log[j].t = "call" => /\ log[j].nargs = 0
                                   /\ log[j].sub = 1 => log[j].stored
        /\ RoundsComplete(log)
        /\ Cardinality({j \in 1 .. Len(log) : log[j].t = "end" /\ log[j].lvl = 0})
              >= hist.top

C3_Witness ==
    /\ hist.op = "setCompleted" /\ Len(subscribers) = 2
    /\ CallsOf(log, 1) >= 1 /\ CallsOf(log, 2) >= 1
    /\ \E j \in 1 .. Len(log) : log[j].sub = 1 /\ log[j].stored

\* C4: no batching: every write through a handle runs its own round, so with
\* callbacks that do not write each one is called once per set-trap invocation;
\* over plain storage that is once per write N the handler performs
C4_NoBatching ==
    (hist.op # "none" /\ AllCount) =>
        /\ \A i \in 1 .. Len(subscribers) : CallsOf(log, i) = hist.sets
        /\ ~hist.deep => hist.sets = hist.top

C4_Witness ==
    /\ hist.op = "clearCompleted" /\ ~hist.deep /\ hist.top = 2
    /\ subscribers = <<"count", "count">>
    /\ CallsOf(log, 1) = 2 /\ CallsOf(log, 2) = 2

\* C5: re-entrant notification loses nothing: a write made by a subscriber runs a
\* complete round before the round it interrupted continues, that round still
\* calls every remaining subscriber, and the operation then returns to its caller
C5_ReentrantRoundsComplete ==
    hist.op # "none" =>
        /\ RoundsComplete(log)
        /\ Cardinality(RoundsOf(log)) = hist.sets
        /\ \A r, q \in RoundsOf(log) :
              (MinOf(Positions(log, r)) < MinOf(Positions(log, q))
                 /\ MinOf(Positions(log, q)) < MaxOf(Positions(log, r)))
              => /\ MaxOf(Positions(log, q)) < MaxOf(Positions(log, r))
                 /\ \A p \in Positions(log, r) :
                       ~(MinOf(Positions(log, q)) < p /\ p < MaxOf(Positions(log, q)))
        /\ Len(log) > 0 => (log[Len(log)].t = "end" /\ log[Len(log)].lvl = 0)

C5_Witness ==
    /\ subscribers = <<"writer", "count">>
    /\ hist.op = "setFilter"
    /\ \E j \in 1 .. Len(log) : log[j].t = "end" /\ log[j].lvl = 1
    /\ CallsOf(log, 2) = 2
    /\ log[Len(log)].t = "end" /\ log[Len(log)].lvl = 0

(***************************************************************************)
(* The store read and written through handles a client keeps.  Each read   *)
(* through a handle runs the get trap and the client keeps what it         *)
(* returned; a composite result is the Proxy object that call of           *)
(* makeReactive created.  A handler operation ends the client's use of the *)
(* handles it has.                                                         *)
(***************************************************************************)
MaxHeld == 2    \* most values a client holds at a time

ReadFields == {"tasks", "editingId", "completed"}

\* the keys a client reads through a handle
KeysOf(h, hd) ==
    LET o == h[hd.n] IN
    IF o.kind = "arr"
    THEN {Idx(i) : i \in 0 .. Len(o.items) - 1}
    ELSE {Fld(x) : x \in (DOMAIN o.f) \cap ReadFields}

\* the handles a client can read through, each with the keys that lead to it
Sources ==
    {[hd |-> state, path |-> <<>>], [hd |-> TasksOf(heap), path |-> <<Fld("tasks")>>]}
    \cup {[hd |-> held[i].val, path |-> held[i].path] :
            i \in {j \in DOMAIN held : IsObject(held[j].val)}}

\* state[path[1]][path[2]]...: the path read again from the exported state
RECURSIVE ReadPath(_, _, _)
ReadPath(h, hd, path) ==
    IF path = <<>> THEN hd
    ELSE ReadPath(h, getTrap(h, hd, Head(path)), Tail(path))

\* new Proxy(...): a Proxy object that did not exist before
NewProxy(hs) == 1 + MaxOf({0} \cup {hs[i].px : i \in DOMAIN hs})

HandleInit ==
    /\ heap = InitialHeap
    /\ subscribers = <<"count">>
    /\ log = <<>>
    /\ hist = NoOp
    /\ dom = <<>>
    /\ epoch = 0
    /\ mnt = NoMount
    /\ currentRoute = ""
    /\ events = 0
    /\ held = <<>>
    /\ routeChangeCallback = "null"
    /\ window = NoWindow

\* const x = src[key]
ReadThrough(src, key) ==
    /\ Len(held) < MaxHeld
    /\ \E value \in {getTrap(heap, src.hd, key)} :
          held' = Append(held,
                    [path |-> Append(src.path, key),
                     raw |-> RawGet(heap, src.hd.n, key),
                     val |-> value,
                     px |-> IF IsObject(value) THEN NewProxy(held) ELSE 0,
                     grp |-> IF held = <<>> THEN 1
                             ELSE IF held[Len(held)].open THEN held[Len(held)].grp
                             ELSE held[Len(held)].grp + 1,
                     open |-> TRUE])
    /\ hist' = [NoOp EXCEPT !.op = "read", !.val = [heap |-> heap, log |-> log]]
    /\ UNCHANGED <<heap, subscribers, log, dom, epoch, mnt, currentRoute, routeChangeCallback, window, events>>

\* what a client writes through a held handle: x.completed = b on a task,
\* x.push({...}) on the tasks array
WritesThrough(h, hd) ==
    IF h[hd.n].kind = "arr"
    THEN {w \in [name : {"push"}, b : {FALSE}] : Len(h[hd.n].items) < MaxTasks}
    ELSE {w \in [name : {"setCompleted"}, b : BOOLEAN] : "completed" \in DOMAIN h[hd.n].f}

RunWrite(st, hd, w) ==
    IF w.name = "push"
    THEN LET a == Alloc(st.heap)
             s1 == [st EXCEPT !.heap[a] =
                        TaskLiteral(Len(st.heap[hd.n].items) + 1, "buy milk")]
         IN ArrayPush(s1, hd, Obj(a, 0))
    ELSE HandlerSet(st, hd, Fld("completed"), Bool(w.b))

\* the last [[Set]] of a write: its key and the value given
LastSet(h, hd, w) ==
    IF w.name = "push"
    THEN [key |-> LengthKey, val |-> Num(Len(h[hd.n].items) + 1)]
    ELSE [key |-> Fld("completed"), val |-> Bool(w.b)]

\* a write through the i-th held value
WriteThrough(i, w) ==
    /\ \E st \in {RunWrite(Start(heap), held[i].val, w)} :
          /\ heap' = st.heap
          /\ log' = st.log
          /\ hist' = [NoOp EXCEPT !.op = "write", !.n = i, !.sets = st.sets,
                                  !.top = st.top,
                                  !.val = LastSet(heap, held[i].val, w)]
    /\ held' = [j \in DOMAIN held |-> [held[j] EXCEPT !.open = FALSE]]
    /\ UNCHANGED <<subscribers, dom, epoch, mnt, currentRoute, routeChangeCallback, window, events>>

\* the handler operations that add, complete and clear tasks
HandleOps(h) == {op \in StoreOps(h) : op.name \in {"push", "setCompleted", "clearCompleted"}}

HandleNext ==
    \/ \E op \in HandleOps(heap) : Operation(op)
    \/ \E src \in Sources : \E key \in KeysOf(heap, src.hd) : ReadThrough(src, key)
    \/ \E i \in {j \in DOMAIN held : IsObject(held[j].val)} :
          \E w \in WritesThrough(heap, held[i].val) : WriteThrough(i, w)

SpecHandles == HandleInit /\ [][HandleNext]_vars

(***************************************************************************)
(* Properties of handles.                                                  *)
(***************************************************************************)
\* two held values were read from the same nested field with no write between
Twins(i, j) ==
    /\ i # j
    /\ held[i].path = held[j].path
    /\ held[i].grp = held[j].grp
    /\ IsObject(held[i].val)
    /\ IsObject(held[j].val)

\* C15: two handles read from the same nested field with no write in between
\* share storage: a write through either is what a later read of the written
\* key returns through the other and through the path from the exported state,
\* and the two handles and that path read the same value under every key
C15_HandlesShareStorage ==
    \A i, j \in DOMAIN held :
        Twins(i, j) =>
            /\ \A key \in KeysOf(heap, held[i].val) :
                  /\ getTrap(heap, held[i].val, key) = getTrap(heap, held[j].val, key)
                  /\ getTrap(heap, ReadPath(heap, state, held[i].path), key)
                        = getTrap(heap, held[j].val, key)
            /\ (hist.op = "write" /\ hist.n = i) =>
                  /\ getTrap(heap, held[j].val, hist.val.key) = hist.val.val
                  /\ getTrap(heap, ReadPath(heap, state, held[i].path), hist.val.key)
                        = hist.val.val

C15_Witness ==
    /\ hist.op = "write"
    /\ \E j \in DOMAIN held :
          /\ Twins(hist.n, j)
          /\ held[j].px # held[hist.n].px
          /\ held[j].raw.d > 0
          /\ hist.val.key = Fld("completed")
          /\ hist.val.val = Bool(TRUE)
          /\ getTrap(heap, held[j].val, Fld("completed")) = Bool(TRUE)

\* C16: the store keeps one wrapper per underlying object: reading the same
\* nested composite field again, with no write in between, returns the
\* identical wrapper
C16_OneWrapperPerObject ==
    \A i, j \in DOMAIN held : Twins(i, j) => held[i].px = held[j].px

\* C17: a read through a reactive handle returns a reactive handle over the
\* stored object when the stored value is a mapping or a sequence, and a write
\* through what it returned calls every subscriber; it returns the stored value
\* itself when that is a primitive or null; and the read leaves the storage and
\* the subscriber calls made so far as they were
C17_ReadsWrapComposites ==
    /\ \A i \in DOMAIN held :
          IF held[i].raw.k = "obj"
          THEN /\ held[i].val.k = "obj"
               /\ held[i].val.n = held[i].raw.n
               /\ held[i].val.d > held[i].raw.d
          ELSE held[i].val = held[i].raw
    /\ hist.op = "write" =>
          \A s \in 1 .. Len(subscribers) : CallsOf(log, s) >= 1
    /\ hist.op = "read" => (heap = hist.val.heap /\ log = hist.val.log)

C17_Witness ==
    /\ hist.op = "write"
    /\ held[hist.n].raw.k = "obj"
    /\ held[hist.n].val.d = 1
    /\ Len(subscribers) = 1
    /\ CallsOf(log, 1) >= 1
    /\ \E j \in DOMAIN held : held[j].raw = Null /\ held[j].val = Null

(***************************************************************************)
(* The mount controller driven by a client that mounts descriptors, valid  *)
(* and invalid, single and in sequences, into document.body or into a      *)
(* detached element, a text node or null.                                  *)
(***************************************************************************)
MaxSeq == 2    \* longest sequence of descriptors given to mount

V1 == createVNode("p", <<Attr("class", Str("a"))>>, <<Str("hi"), Num(1)>>)
V2 == createVNode("button", <<Attr("onclick", Fn("f", Null))>>,
                  <<createVNode("b", <<>>, <<Str("go")>>), Bool(FALSE)>>)
Singles == {V1, V2, EmptyObject}
MountArgs ==
    Singles \cup {Array(items) : items \in UNION {[1 .. n -> Singles] : n \in 0 .. MaxSeq}}
Roots == {"body", "detached", "text", "none"}

MountInit ==
    /\ heap = InitialHeap
    /\ subscribers = <<>>
    /\ log = <<>>
    /\ hist = NoOp
    /\ dom = <<>>
    /\ epoch = 0
    /\ mnt = NoMount
    /\ currentRoute = ""
    /\ events = 0
    /\ held = <<>>
    /\ routeChangeCallback = "null"
    /\ window = NoWindow

\* one call mount(root, vnode); a root other than the body has no children
\* before the call, and mnt.out keeps those it has afterwards
Mount(root, vnode) ==
    /\ \E r \in {mount(root, vnode, IF root = "body" THEN dom ELSE <<>>, 1 - epoch)} :
          /\ dom' = IF root = "body" THEN r.kids ELSE dom
          /\ mnt' = [root |-> root, arg |-> vnode, res |-> r.res, at |-> r.at,
                     prev |-> dom, out |-> r.kids]
    /\ epoch' = 1 - epoch
    /\ UNCHANGED <<heap, subscribers, log, hist, currentRoute, routeChangeCallback, window, events, held>>

MountNext == \E root \in Roots, vnode \in MountArgs : Mount(root, vnode)

SpecMount == MountInit /\ [][MountNext]_vars

\* the stamps of a node and of everything below it
RECURSIVE Stamps(_)
Stamps(node) ==
    {node.ep} \cup
    (IF node.k = "el" THEN UNION {Stamps(node.kids[i]) : i \in 1 .. Len(node.kids)}
     ELSE {})
StampsIn(kids) == UNION {Stamps(kids[i]) : i \in 1 .. Len(kids)}

\* what rendering the argument alone produces
Rendering(vnode, ep) ==
    IF IsArray(vnode) THEN [i \in 1 .. Len(vnode.arr) |-> render(vnode.arr[i], ep).node]
    ELSE <<render(vnode, ep).node>>

StructureErrors == {"Invalid vnode structure", "Invalid vnode structure in array"}

\* C8: mount full-replace law: after mount(X, D1) and then a mount(X, D2) that
\* completes, X holds exactly the nodes rendering D2 alone produces, and no node
\* (nor a handler bound on one) allocated by an earlier mount remains in X
C8_MountFullReplace ==
    (mnt.root = "body" /\ mnt.res = "ok") =>
        /\ dom = Rendering(mnt.arg, epoch)
        /\ StampsIn(dom) \subseteq {epoch}

C8_Witness ==
    /\ mnt.root = "body" /\ mnt.res = "ok"
    /\ mnt.prev # <<>> /\ StampsIn(mnt.prev) = {1 - epoch}
    /\ mnt.arg = V2
    /\ dom = Rendering(V2, epoch) /\ Len(dom) = 1
    /\ dom[1].props["onclick"].k = "fn"

\* C9: mount validates its input before it removes anything: when it fails
\* because the descriptor or an element of the sequence is invalid, the
\* container's previous children are still in place
C9_InvalidInputKeepsChildren ==
    (mnt.root = "body" /\ mnt.res \in StructureErrors) => dom = mnt.prev

\* C10: when a sequence holds an invalid element at position i, the call fails
\* and none of the sequence's descriptors has been rendered into the container
C10_InvalidSequenceRendersNothing ==
    (mnt.root = "body" /\ IsArray(mnt.arg)
       /\ \E i \in 1 .. Len(mnt.arg.arr) : InvalidVNode(mnt.arg.arr[i]))
    => /\ mnt.res # "ok"
       /\ epoch \notin StampsIn(dom)

\* C11 as stated: mount called with a container that is not an element of the
\* live tree fails with the target error whatever the second argument is, and
\* removes, renders and appends nothing
C11_NotLiveTreeElementRejected ==
    (mnt.res # "none" /\ mnt.root # "body") =>
        /\ mnt.res = "Root must be a DOM Element"
        /\ dom = mnt.prev
        /\ mnt.out = <<>>

\* C11: mount called with a container that is not an Element (a text node,
\* null) fails with the target error whatever the second argument is, and
\* removes, renders and appends nothing; an element outside the live tree is
\* accepted like any other element
C11_NonElementRejected ==
    /\ (mnt.res # "none" /\ ~InstanceOfElement(mnt.root)) =>
          /\ mnt.res = "Root must be a DOM Element"
          /\ dom = mnt.prev
          /\ mnt.out = <<>>
    /\ (mnt.res # "none" /\ mnt.root = "detached") =>
          /\ mnt.res # "Root must be a DOM Element"
          /\ dom = mnt.prev
          /\ mnt.res = "ok" => mnt.out = Rendering(mnt.arg, epoch)

C11_Witness ==
    /\ mnt.root = "text" /\ mnt.arg = V1
    /\ mnt.res = "Root must be a DOM Element"
    /\ mnt.prev # <<>> /\ dom = mnt.prev

\* the error mount throws for a sequence given to an empty body, and the
\* position of the element it was thrown at
Thrown(v) == mount("body", v, <<>>, 0).res
OffendingIndex(v) == mount("body", v, <<>>, 0).at

\* C13: when mount rejects a sequence, the error it raises identifies the index
\* of the offending element: no other rejected sequence raises the same error
\* for an element at a different index
C13_ErrorIdentifiesIndex ==
    (mnt.root = "body" /\ IsArray(mnt.arg)
       /\ mnt.res = "Invalid vnode structure in array") =>
        \A v \in MountArgs :
            (IsArray(v) /\ Thrown(v) = mnt.res) => OffendingIndex(v) = mnt.at

\* C14: after mount succeeds on a sequence of n descriptors the container has
\* exactly n children, the i-th being the rendering of the i-th descriptor; an
\* empty sequence is mounted without error and leaves the container empty
C14_SequenceMountedInOrder ==
    /\ (mnt.root = "body" /\ IsArray(mnt.arg) /\ mnt.res = "ok") =>
          /\ Len(dom) = Len(mnt.arg.arr)
          /\ \A i \in 1 .. Len(dom) : dom[i] = render(mnt.arg.arr[i], epoch).node
    /\ (mnt.root = "body" /\ mnt.arg = Array(<<>>)) =>
          /\ mnt.res = "ok"
          /\ dom = <<>>

C14_Witness ==
    /\ mnt.root = "body" /\ mnt.arg = Array(<<V1, V2>>) /\ mnt.res = "ok"
    /\ mnt.prev # <<>>
    /\ Len(dom) = 2 /\ dom[1].tag = "p" /\ dom[2].tag = "button"

(***************************************************************************)
(* render and mount as functions of their argument: the argument is drawn  *)
(* from the values a caller can build, and is rendered, or mounted into    *)
(* the empty body, once.                                                   *)
(***************************************************************************)
MaxKids == 2    \* most children of a descriptor given to render

Leaf == createVNode("b", <<>>, <<>>)
WithNull == createVNode("li", <<>>, <<Null>>)
ChildValues ==
    {Str("a"), Str(""), Num(0), Num(7), Bool(FALSE), Null, Undef, Leaf,
     Array(<<Str("x"), Leaf>>)}
ChildLists == UNION {[1 .. n -> ChildValues] : n \in 0 .. MaxKids}
Tags == {"li", "input"}
AttrMaps == {<<>>, <<Attr("class", Str("c")), Attr("value", Num(5))>>}
Descriptors ==
    {createVNode(t, a, c) : t \in Tags, a \in AttrMaps, c \in ChildLists}
Elems == {Leaf, WithNull, EmptyObject, Null, Str("a")}
Sequences == {Array(items) : items \in UNION {[1 .. n -> Elems] : n \in 0 .. MaxSeq}}
Inputs ==
    Descriptors \cup Sequences
    \cup {Null, Undef, Str("a"), Num(7), Bool(TRUE), EmptyObject, Fn("f", Null)}

InputInit ==
    /\ heap = InitialHeap
    /\ subscribers = <<>>
    /\ log = <<>>
    /\ hist = NoOp
    /\ dom = <<>>
    /\ epoch = 0
    /\ mnt \in {[NoMount EXCEPT !.arg = x] : x \in Inputs}
    /\ currentRoute = ""
    /\ events = 0
    /\ held = <<>>
    /\ routeChangeCallback = "null"
    /\ window = NoWindow

\* mount(document.body, x) on the drawn argument
MountInput ==
    /\ mnt.res = "none"
    /\ Mount("body", mnt.arg)

\* render(x) on the drawn argument; mnt.out keeps the node returned
RenderInput ==
    /\ mnt.res = "none"
    /\ \E r \in {render(mnt.arg, 1 - epoch)} :
          mnt' = [mnt EXCEPT !.root = "render",
                             !.res = IF r.ok THEN "ok" ELSE "TypeError",
                             !.out = IF r.ok THEN <<r.node>> ELSE <<>>]
    /\ epoch' = 1 - epoch
    /\ UNCHANGED <<heap, subscribers, log, hist, dom, currentRoute, routeChangeCallback, window, events, held>>

InputNext == MountInput \/ RenderInput

SpecInput == InputInit /\ [][InputNext]_vars

(***************************************************************************)
(* Properties of render and mount on one argument.                         *)
(***************************************************************************)
\* a value is null or undefined, is not an object, or has no tag
NoDescriptor(v) ==
    IF IsRecordWithTag(v) THEN v.tag = ""
    ELSE IF IsArray(v) THEN TRUE
    ELSE v.k \in {"null", "undef"} \/ TypeOf(v) # "object" \/ v = EmptyObject

Rejected(arg) ==
    IF IsArray(arg) THEN \E i \in 1 .. Len(arg.arr) : NoDescriptor(arg.arr[i])
    ELSE NoDescriptor(arg)

\* C12: with a valid container, mount fails with the structure error exactly
\* when the value, or at least one element of a sequence, is null or undefined,
\* is not an object or has no tag; in every other case mount completes without
\* error.  The outcome is the result of the call itself.
C12_StructureErrorExactlyWhenInvalid ==
    (mnt.root = "body" /\ mnt.res # "none") =>
        IF Rejected(mnt.arg) THEN mnt.res \in StructureErrors ELSE mnt.res = "ok"

\* JavaScript truthiness of a child entry (objects and arrays are truthy)
NonFalsy(c) == IsRecordWithTag(c) \/ IsArray(c) \/ Truthy(c)
Rendered == mnt.root = "render" /\ IsRecordWithTag(mnt.arg)

\* the children with each nested sequence replaced by its elements
RECURSIVE Flat(_)
Flat(cs) ==
    IF cs = <<>> THEN <<>>
    ELSE (IF IsArray(Head(cs)) THEN Head(cs).arr ELSE <<Head(cs)>>) \o Flat(Tail(cs))

AllNonFalsy(cs) == \A i \in DOMAIN cs : NonFalsy(cs[i])

\* C18: render skips falsy children silently: false, null and undefined raise
\* no error and contribute no node, so the element has exactly as many children
\* as the descriptor has non-falsy children
C18_FalsyChildrenSkipped ==
    Rendered =>
        /\ mnt.res = "ok"
        /\ Len(mnt.out[1].kids)
              = Cardinality({i \in DOMAIN mnt.arg.children : NonFalsy(mnt.arg.children[i])})

\* C19: a child that is itself a sequence is flattened one level: each of its
\* elements is rendered as its own child node, in order, at the sequence's place
C19_NestedSequenceFlattened ==
    (Rendered /\ AllNonFalsy(Flat(mnt.arg.children))) =>
        /\ mnt.res = "ok"
        /\ Len(mnt.out[1].kids) = Len(Flat(mnt.arg.children))
        /\ \A i \in DOMAIN Flat(mnt.arg.children) :
              mnt.out[1].kids[i] = render(Flat(mnt.arg.children)[i], epoch).node

\* C20: for a descriptor whose attrs have no on-key and whose children are
\* strings and numbers, render gives an element with the descriptor's tag whose
\* children are one text node per non-falsy child, in order, with its string form
C20_TextChildPerNonFalsyEntry ==
    (Rendered /\ \A i \in DOMAIN mnt.arg.children :
                    TypeOf(mnt.arg.children[i]) \in {"string", "number"}) =>
        /\ mnt.res = "ok"
        /\ mnt.out[1].tag = mnt.arg.tag
        /\ LET texts == SelectSeq(mnt.arg.children, Truthy)
           IN mnt.out[1].kids = [i \in DOMAIN texts |-> TextNode(JsString(texts[i]), epoch)]

(***************************************************************************)
(* createVNode and render seen from a caller: an argument list is drawn,   *)
(* createVNode is called on it (twice at most), what it returned is        *)
(* rendered (each call of render creates a fresh element), and events are  *)
(* dispatched on the rendered elements.  log holds the functions the last  *)
(* dispatch invoked.                                                       *)
(***************************************************************************)
MaxAttrs == 2     \* most entries of an attrs object given to createVNode
MaxCalls == 2     \* most calls of createVNode, and of render, on one argument list

AttrEntries ==
    {Attr("onclick", Fn("f", Null)), Attr("onClick", Fn("g", Null)),
     Attr("onclick", Str("go()")), Attr("onClick", Str("go()")),
     Attr("class", Str("c")), Attr("value", Str("v")), Attr("checked", Bool(TRUE))}
AttrLists ==
    {a \in UNION {[1 .. n -> AttrEntries] : n \in 0 .. MaxAttrs} :
        \A i, j \in DOMAIN a : i # j => a[i].key # a[j].key}
\* the second argument: left out, null, or an object with entries
AttrArgs ==
    {[k |-> "omitted", entries |-> <<>>], [k |-> "null", entries |-> <<>>]}
    \cup {[k |-> "map", entries |-> a] : a \in AttrLists}
BuildArgs == [tag : {"input", "div"}, attrs : AttrArgs, children : {<<>>, <<Str("a"), Null>>}]
EventNames == {"click", "change"}

\* createVNode(tag, attrs, ...children) called on an argument list: attrs = {}
\* applies when the second argument is left out
createVNodeWith(a) ==
    createVNode(a.tag,
                IF a.attrs.k = "omitted" THEN <<>>
                ELSE IF a.attrs.k = "null" THEN Null
                ELSE a.attrs.entries,
                a.children)

\* el.dispatchEvent(new Event(ev)) on an element outside the document: the
\* functions invoked, in order
dispatchEvent(el, ev) ==
    IF ("on" \o ev) \in DOMAIN el.props /\ TypeOf(el.props["on" \o ev]) = "function"
    THEN <<el.props["on" \o ev]>>
    ELSE <<>>

BuildInit ==
    /\ heap = InitialHeap
    /\ subscribers = <<>>
    /\ log = <<>>
    /\ hist = NoOp
    /\ dom = <<>>
    /\ epoch = 0
    /\ mnt \in {[NoMount EXCEPT !.root = "build", !.arg = a] : a \in BuildArgs}
    /\ currentRoute = ""
    /\ events = 0
    /\ held = <<>>
    /\ routeChangeCallback = "null"
    /\ window = NoWindow

\* const d = createVNode(...args); mnt.prev keeps what the calls returned
Build ==
    /\ Len(mnt.prev) < MaxCalls
    /\ mnt' = [mnt EXCEPT !.prev = Append(@, createVNodeWith(mnt.arg))]
    /\ hist' = [NoOp EXCEPT !.op = "build"]
    /\ UNCHANGED <<heap, subscribers, log, dom, epoch, currentRoute, routeChangeCallback, window, events, held>>

\* const el = render(d) on a descriptor built before; mnt.out keeps the elements
RenderBuilt(i) ==
    /\ Len(mnt.out) < MaxCalls
    /\ mnt.arg.attrs.k # "null"
    /\ \E r \in {render(mnt.prev[i], Len(mnt.out) + 1)} :
          mnt' = [mnt EXCEPT !.res = IF r.ok THEN "ok" ELSE "TypeError",
                             !.out = IF r.ok THEN Append(@, r.node) ELSE @]
    /\ log' = <<>>
    /\ hist' = [NoOp EXCEPT !.op = "render"]
    /\ UNCHANGED <<heap, subscribers, dom, epoch, currentRoute, routeChangeCallback, window, events, held>>

\* an event dispatched on the i-th rendered element
Trigger(i, ev) ==
    /\ log' = dispatchEvent(mnt.out[i], ev)
    /\ hist' = [NoOp EXCEPT !.op = "trigger", !.n = i, !.val = Str(ev)]
    /\ UNCHANGED <<heap, subscribers, dom, epoch, mnt, currentRoute, routeChangeCallback, window, events, held>>

BuildNext ==
    \/ Build
    \/ \E i \in DOMAIN mnt.prev : RenderBuilt(i)
    \/ \E i \in DOMAIN mnt.out, ev \in EventNames : Trigger(i, ev)

SpecBuild == BuildInit /\ [][BuildNext]_vars

(***************************************************************************)
(* Properties of createVNode and of the attrs loop of render.              *)
(***************************************************************************)
Entries == mnt.arg.attrs.entries
Callable(e) == StartsWithOn(e.key) /\ TypeOf(e.val) = "function"
Times(l, fn) == Cardinality({j \in DOMAIN l : l[j] = fn})

\* C21: for every attrs entry whose key is 'on' + an event name, in any letter
\* case, and whose value is callable, a trigger of that event on the rendered
\* element invokes that callable exactly once (also when two keys differ only
\* in letter case), on whichever of the rendered elements it is dispatched
C21_HandlerOncePerTrigger ==
    hist.op = "trigger" =>
        \A i \in DOMAIN Entries :
            (Callable(Entries[i]) /\ ToLowerCase(Entries[i].key) = "on" \o hist.val.s)
                => Times(log, Entries[i].val) = 1

\* no two keys of the attrs object differ only in letter case
DistinctKeys ==
    \A i, j \in DOMAIN Entries :
        i # j => ToLowerCase(Entries[i].key) # ToLowerCase(Entries[j].key)

\* the element has a handler bound for the event handler property name
Bound(el, name) == name \in DOMAIN el.props /\ TypeOf(el.props[name]) = "function"

\* C22: render applies each attrs entry through exactly one channel: an event
\* binding when the key starts with 'on' and the value is callable; otherwise a
\* property assignment when the element exposes a property of that name;
\* otherwise a string attribute.  An 'on' key with a non-callable value creates
\* no event binding and raises no error.  (Stated for descriptors without
\* children whose keys do not differ only in letter case.)
C22_OneChannelPerEntry ==
    (DistinctKeys /\ mnt.arg.children = <<>> /\ hist.op = "render") =>
        /\ mnt.res = "ok"
        /\ \A n \in DOMAIN mnt.out : \A i \in DOMAIN Entries :
              LET el == mnt.out[n]
                  key == Entries[i].key
                  val == Entries[i].val
              IN /\ IF Callable(Entries[i])
                    THEN /\ Bound(el, ToLowerCase(key)) /\ el.props[ToLowerCase(key)] = val
                         /\ ToLowerCase(key) \notin DOMAIN el.attrs
                    ELSE IF key \in ElementProps(el.tag)
                    THEN /\ key \in DOMAIN el.props
                         /\ key \notin EventHandlers => el.props[key] = val
                         /\ ToLowerCase(key) \notin DOMAIN el.attrs
                    ELSE /\ ToLowerCase(key) \in DOMAIN el.attrs
                         /\ el.attrs[ToLowerCase(key)] = JsString(val)
                         /\ key \notin DOMAIN el.props
                 /\ (StartsWithOn(key) /\ ~Callable(Entries[i]))
                       => ~Bound(el, ToLowerCase(key))

\* C23: the order in which render applies the entries of attrs does not affect
\* the element: rendering any permutation of the entries gives the same bound
\* handlers, properties and attributes
C23_AttrOrderIrrelevant ==
    hist.op = "render" =>
        \A n \in DOMAIN mnt.out :
            \A p \in {q \in [DOMAIN Entries -> DOMAIN Entries] :
                        \A i, j \in DOMAIN Entries : i # j => q[i] # q[j]} :
                LET permuted == [i \in DOMAIN Entries |-> Entries[p[i]]]
                    el == render(createVNode(mnt.arg.tag, permuted, <<>>), 0).node
                IN el.props = mnt.out[n].props /\ el.attrs = mnt.out[n].attrs

\* C24: createVNode returns a value with exactly the fields tag, attrs and
\* children, holding the given tag, the given attrs (an empty mapping when attrs
\* is left out) and the children in call order; it validates nothing (a null
\* attrs or a null child is stored as given), has no side effect, and two calls
\* with equal arguments return field-wise equal descriptors
C24_BuilderStoresArguments ==
    /\ \A n \in DOMAIN mnt.prev :
          /\ DOMAIN mnt.prev[n] = {"tag", "attrs", "children"}
          /\ mnt.prev[n].tag = mnt.arg.tag
          /\ IF mnt.arg.attrs.k = "null" THEN mnt.prev[n].attrs = Null
             ELSE mnt.prev[n].attrs = mnt.arg.attrs.entries
          /\ mnt.prev[n].children = mnt.arg.children
          /\ \A m \in DOMAIN mnt.prev : mnt.prev[m] = mnt.prev[n]
    /\ heap = InitialHeap /\ subscribers = <<>> /\ dom = <<>>

C24_Witness ==
    /\ hist.op = "build"
    /\ Len(mnt.prev) = 2
    /\ mnt.arg.attrs.k = "omitted"
    /\ mnt.arg.children = <<Str("a"), Null>>
    /\ mnt.prev[1].attrs = <<>>
    /\ mnt.prev[2].children[2] = Null

(***************************************************************************)
(* A descriptor used more than once: one value is drawn, and render and    *)
(* mount are called on it again and again.  mnt.arg is the value as the    *)
(* calls have left it, mnt.prev holds it as it was constructed, and        *)
(* mnt.out keeps every call with its stamp and its result.                 *)
(***************************************************************************)
\* a render that takes the children out of the descriptor as it goes
AfterRenderShifting(vnode) ==
    IF IsRecordWithTag(vnode) THEN [vnode EXCEPT !.children = <<>>] ELSE vnode

\* the value render(vnode) was given, after the call: render reads vnode.tag,
\* vnode.attrs and vnode.children, calls itself on each child, and assigns to
\* none of them
RECURSIVE AfterRender(_)
AfterRender(vnode) ==
    IF IsRecordWithTag(vnode)
    THEN [tag |-> vnode.tag, attrs |-> vnode.attrs,
          children |-> [i \in DOMAIN vnode.children |-> AfterRender(vnode.children[i])]]
    ELSE vnode

\* the value mount(root, vnode) was given, after the call
AfterMount(vnode) ==
    IF IsArray(vnode)
    THEN Array([i \in DOMAIN vnode.arr |-> AfterRender(vnode.arr[i])])
    ELSE AfterRender(vnode)

ReuseInit ==
    /\ heap = InitialHeap
    /\ subscribers = <<>>
    /\ log = <<>>
    /\ hist = NoOp
    /\ dom = <<>>
    /\ epoch = 0
    /\ mnt \in {[NoMount EXCEPT !.root = "reuse", !.arg = x, !.prev = <<x>>] :
                  x \in Descriptors \cup Sequences}
    /\ currentRoute = ""
    /\ events = 0
    /\ held = <<>>
    /\ routeChangeCallback = "null"
    /\ window = NoWindow

\* render(x), once more
RenderAgain ==
    /\ Len(mnt.out) < MaxCalls
    /\ \E r \in {render(mnt.arg, Len(mnt.out) + 1)} :
          mnt' = [mnt EXCEPT !.arg = AfterRender(@),
                             !.res = IF r.ok THEN "ok" ELSE "TypeError",
                             !.out = Append(@, [op |-> "render", ep |-> Len(mnt.out) + 1,
                                                res |-> IF r.ok THEN "ok" ELSE "TypeError",
                                                nodes |-> IF r.ok THEN <<r.node>> ELSE <<>>])]
    /\ hist' = [NoOp EXCEPT !.op = "render"]
    /\ UNCHANGED <<heap, subscribers, log, dom, epoch, currentRoute, routeChangeCallback, window, events, held>>

\* mount(document.body, x), once more
MountAgain ==
    /\ Len(mnt.out) < MaxCalls
    /\ \E r \in {mount("body", mnt.arg, dom, Len(mnt.out) + 1)} :
          /\ dom' = r.kids
          /\ mnt' = [mnt EXCEPT !.arg = AfterMount(@), !.res = r.res, !.at = r.at,
                                !.out = Append(@, [op |-> "mount", ep |-> Len(mnt.out) + 1,
                                                   res |-> r.res, nodes |-> r.kids])]
    /\ hist' = [NoOp EXCEPT !.op = "mount"]
    /\ UNCHANGED <<heap, subscribers, log, epoch, currentRoute, routeChangeCallback, window, events, held>>

ReuseNext == RenderAgain \/ MountAgain

SpecReuse == ReuseInit /\ [][ReuseNext]_vars

\* what the call recorded in c gives on the value v
CallOn(c, v) ==
    IF c.op = "render"
    THEN LET r == render(v, c.ep)
         IN [op |-> "render", ep |-> c.ep, res |-> IF r.ok THEN "ok" ELSE "TypeError",
             nodes |-> IF r.ok THEN <<r.node>> ELSE <<>>]
    ELSE LET r == mount("body", v, <<>>, c.ep)
         IN [op |-> "mount", ep |-> c.ep, res |-> r.res, nodes |-> r.kids]

Callbacks == {"cbA", "cbB"}
RouterHashes == {"", "active", "completed", "all"}
RouteArgs == {"", "/", "active", "completed", "all"}

\* the route a fragment stands for: the fragment, or '/' for none
RouteOf(hash) == IF hash = "" THEN "/" ELSE hash

\* a handleRouteChange that tells the callback only about a route that differs
\* from the last one seen
handleRouteChangeIfChanged(hash, callback) ==
    LET route == IF hash = "" THEN "/" ELSE hash
    IN [route |-> route,
        calls |-> IF callback # "null" /\ route # currentRoute
                  THEN <<[t |-> "call", cb |-> callback, route |-> route]>>
                  ELSE <<>>,
        seen |-> IF callback # "null" /\ route # currentRoute
                 THEN <<[route |-> route, current |-> route]>>
                 ELSE <<>>]

\* a handleRouteChange that keeps the first route it has seen
handleRouteChangeKeepsFirst(hash, callback) ==
    LET route == IF currentRoute # "" THEN currentRoute
                 ELSE IF hash = "" THEN "/" ELSE hash
    IN [route |-> route,
        calls |-> IF callback # "null"
                  THEN <<[t |-> "call", cb |-> callback, route |-> route]>>
                  ELSE <<>>,
        seen |-> IF callback # "null"
                 THEN <<[route |-> route, current |-> route]>>
                 ELSE <<>>]

\* a handleRouteChange that invokes the callback before it records the route
handleRouteChangeCallsFirst(hash, callback) ==
    LET route == IF hash = "" THEN "/" ELSE hash
    IN [route |-> route,
        calls |-> IF callback # "null"
                  THEN <<[t |-> "call", cb |-> callback, route |-> route]>>
                  ELSE <<>>,
        seen |-> IF callback # "null"
                 THEN <<[route |-> route, current |-> currentRoute]>>
                 ELSE <<>>]

\* function handleRouteChange() (router.js 16-23) run with this location.hash
\* and this routeChangeCallback: the new currentRoute, the calls it makes, and
\* for each call the route it passes and the currentRoute the callback finds
handleRouteChange(hash, callback) ==
    LET route == IF hash = "" THEN "/" ELSE hash
    IN [route |-> route,
        calls |-> IF callback # "null"
                  THEN <<[t |-> "call", cb |-> callback, route |-> route]>>
                  ELSE <<>>,
        seen |-> IF callback # "null"
                 THEN <<[route |-> route, current |-> route]>>
                 ELSE <<>>]

RouterInit ==
    /\ heap = InitialHeap
    /\ subscribers = <<>>
    /\ log = <<>>
    /\ hist = NoOp
    /\ dom = <<>>
    /\ epoch = 0
    /\ mnt = NoMount
    /\ currentRoute = ""
    /\ events = 0
    /\ held = <<>>
    /\ routeChangeCallback = "null"
    /\ window \in {[NoWindow EXCEPT !.hash = h] : h \in RouterHashes}

\* an initRouter that keeps the callback it already has
initRouterKeepsFirst(callback) ==
    /\ events < MaxEvents
    /\ events' = events + 1
    /\ routeChangeCallback' = IF routeChangeCallback = "null" THEN callback
                              ELSE routeChangeCallback
    /\ window' = [window EXCEPT !.onhashchange = "handleRouteChange"]
    /\ \E r \in {handleRouteChange(window.hash, routeChangeCallback')} :
          /\ currentRoute' = r.route
          /\ log' = log \o <<[t |-> "init", cb |-> callback, route |-> RouteOf(window.hash)]>>
                           \o r.calls
          /\ hist' = [NoOp EXCEPT !.op = "initRouter", !.val = r.seen]
    /\ UNCHANGED <<heap, subscribers, dom, epoch, mnt, held>>

\* export function initRouter(callback) (router.js 5-13)
initRouter(callback) ==
    /\ events < MaxEvents
    /\ events' = events + 1
    /\ routeChangeCallback' = callback
    /\ window' = [window EXCEPT !.onhashchange = "handleRouteChange"]
    /\ \E r \in {handleRouteChange(window.hash, callback)} :
          /\ currentRoute' = r.route
          /\ log' = log \o <<[t |-> "init", cb |-> callback, route |-> RouteOf(window.hash)]>>
                           \o r.calls
          /\ hist' = [NoOp EXCEPT !.op = "initRouter", !.val = r.seen]
    /\ UNCHANGED <<heap, subscribers, dom, epoch, mnt, held>>

\* the fragment changes to h and the browser fires hashchange
Navigate(h) ==
    /\ events < MaxEvents
    /\ events' = events + 1
    /\ h # window.hash
    /\ window' = [window EXCEPT !.hash = h]
    /\ IF window.onhashchange = "handleRouteChange"
       THEN \E r \in {handleRouteChange(h, routeChangeCallback)} :
               /\ currentRoute' = r.route
               /\ log' = log \o <<[t |-> "nav", cb |-> "null", route |-> RouteOf(h)]>>
                             \o r.calls
               /\ hist' = [NoOp EXCEPT !.op = "navigate", !.val = r.seen]
       ELSE /\ currentRoute' = currentRoute
            /\ log' = Append(log, [t |-> "nav", cb |-> "null", route |-> RouteOf(h)])
            /\ hist' = [NoOp EXCEPT !.op = "navigate", !.val = <<>>]
    /\ UNCHANGED <<heap, subscribers, dom, epoch, mnt, held, routeChangeCallback>>

\* a client calls isActiveRoute(route); hist keeps the argument and the result
Query(route) ==
    /\ hist' = [NoOp EXCEPT !.op = "isActiveRoute",
                            !.val = [route |-> route,
                                     res |-> isActiveRoute(currentRoute, route)]]
    /\ UNCHANGED <<heap, subscribers, log, dom, epoch, mnt, currentRoute, events, held,
                   routeChangeCallback, window>>

RouterNext ==
    \/ \E callback \in Callbacks : initRouter(callback)
    \/ \E h \in RouterHashes : Navigate(h)
    \/ \E route \in RouteArgs : Query(route)

SpecRouter == RouterInit /\ [][RouterNext]_vars

(***************************************************************************)
(* Properties of the router.                                               *)
(***************************************************************************)
\* the positions of the initRouter calls before position j of the run
InitsBefore(j) == {i \in 1 .. j - 1 : log[i].t = "init"}

\* the run has, right after position j, exactly one call, of cb with route
OneCallAfter(j, cb, route) ==
    /\ j < Len(log)
    /\ log[j + 1] = [t |-> "call", cb |-> cb, route |-> route]
    /\ j + 2 <= Len(log) => log[j + 2].t # "call"

\* C25 as stated: initRouter(onChange) invokes onChange once with the current
\* route before it returns, and every navigation after it invokes onChange
\* once with the route of that navigation
C25_EveryCallbackOnEveryNavigation ==
    \A i \in DOMAIN log :
        log[i].t = "init" =>
            /\ OneCallAfter(i, log[i].cb, log[i].route)
            /\ \A j \in DOMAIN log :
                  (j > i /\ log[j].t = "nav") => OneCallAfter(j, log[i].cb, log[j].route)

\* C25: initRouter(onChange) invokes onChange exactly once with the current
\* route before it returns; every later navigation invokes exactly once, with
\* its route, the callback of the most recent initRouter call, and no callback
\* is invoked at any other point
C25_LatestCallbackOnEveryNavigation ==
    \A j \in DOMAIN log :
        /\ log[j].t = "init" => OneCallAfter(j, log[j].cb, log[j].route)
        /\ (log[j].t = "nav" /\ InitsBefore(j) # {}) =>
              OneCallAfter(j, log[MaxOf(InitsBefore(j))].cb, log[j].route)
        /\ log[j].t = "call" => (j > 1 /\ log[j - 1].t \in {"init", "nav"})
        /\ (log[j].t = "nav" /\ InitsBefore(j) = {}) =>
              (j = Len(log) \/ log[j + 1].t # "call")

C25_Witness ==
    /\ Len(log) = 7
    /\ log[1].t = "nav"
    /\ log[2] = [t |-> "init", cb |-> "cbA", route |-> "active"]
    /\ log[3] = [t |-> "call", cb |-> "cbA", route |-> "active"]
    /\ log[4] = [t |-> "nav", cb |-> "null", route |-> "completed"]
    /\ log[5] = [t |-> "call", cb |-> "cbA", route |-> "completed"]
    /\ log[6] = [t |-> "nav", cb |-> "null", route |-> "/"]
    /\ log[7] = [t |-> "call", cb |-> "cbA", route |-> "/"]

\* the route of the last navigation or initRouter call of the run
Steps == {j \in DOMAIN log : log[j].t \in {"init", "nav"}}
LastRoute == log[MaxOf(Steps)].route
Initialised == window.onhashchange = "handleRouteChange"

\* C26: once the router is initialised, isActiveRoute compares against the route
\* of the most recent navigation only; after a navigation from the root route to
\* 'completed' the callback has been invoked with 'completed',
\* isActiveRoute('completed') is true and isActiveRoute('active') is false
C26_ActiveRouteIsLastNavigation ==
    Initialised =>
        /\ \A r \in RouteArgs :
              isActiveRoute(currentRoute, r) = isActiveRoute(LastRoute, r)
        /\ hist.op = "isActiveRoute" =>
              hist.val.res = isActiveRoute(LastRoute, hist.val.route)
        /\ (log[MaxOf(Steps)].t = "nav" /\ LastRoute = "completed") =>
              /\ log[Len(log)] = [t |-> "call", cb |-> routeChangeCallback,
                                  route |-> "completed"]
              /\ isActiveRoute(currentRoute, "completed")
              /\ ~isActiveRoute(currentRoute, "active")

C26_Witness ==
    /\ Len(log) = 4
    /\ log[1] = [t |-> "init", cb |-> "cbA", route |-> "/"]
    /\ log[3] = [t |-> "nav", cb |-> "null", route |-> "completed"]
    /\ log[4] = [t |-> "call", cb |-> "cbA", route |-> "completed"]
    /\ hist.op = "isActiveRoute"
    /\ hist.val = [route |-> "active", res |-> FALSE]

Norm(route) == IF route = "/" THEN "" ELSE route

\* C27: isActiveRoute treats '/' and the empty string as the same route on both
\* sides: isActiveRoute('/') equals isActiveRoute('') for every current route,
\* and the result is true exactly when the normalized current route equals the
\* normalized argument, or the current route is empty/root and the argument is
\* 'all'
C27_RootAndEmptyAreOneRoute ==
    /\ isActiveRoute(currentRoute, "/") = isActiveRoute(currentRoute, "")
    /\ hist.op = "isActiveRoute" =>
          (hist.val.res <=> \/ Norm(currentRoute) = Norm(hist.val.route)
                            \/ Norm(currentRoute) = "" /\ hist.val.route = "all")

C27_Witness ==
    /\ hist.op = "isActiveRoute"
    /\ currentRoute = "/"
    /\ hist.val = [route |-> "all", res |-> TRUE]
    /\ isActiveRoute(currentRoute, "")

(***************************************************************************)
(* The to-do application (app/app.js) in the browser: the module has been  *)
(* loaded (lines 238-241), so the router is initialised, update is the one *)
(* subscriber and the first render is in the document.  Events are what    *)
(* the user does in the page, a hash change, and calls on the exported     *)
(* state made the way the README documents them.                           *)
(***************************************************************************)
Hashes == {"", "active", "completed", "nope"}   \* location.hash without '#'
EditNames == {"tea"}                            \* text typed into the edit box

\* function routeToFilter(route) (app.js 6-11)
routeToFilter(route) ==
    IF route = "active" \/ route = "./active" THEN "active"
    ELSE IF route = "completed" \/ route = "./completed" THEN "completed"
    ELSE IF route = "" \/ route = "/" \/ route = "all" THEN "all"
    ELSE "notfound"

\* the children of ul.todo-list in the document, the info footer, and its button
TodoList(d) == IF Len(d) = 3 THEN d[2].kids[2].kids[2].kids ELSE <<>>
InfoFooter(d) == IF Len(d) = 3 THEN d[2].kids[3] ELSE TextNode("", 0)
ClearButtonShown(d) ==
    /\ InfoFooter(d).k = "el"
    /\ InfoFooter(d).kids[3].props["style"] = Str("display: block;")

\* parts of one rendered item
ToggleBox(li) == li.kids[1].kids[1]
Label(li) == li.kids[1].kids[2]
DestroyButton(li) == li.kids[1].kids[3]
EditBox(li) == li.kids[2]
\* what a handler closed over
Captured(fn) == Obj(fn.n, fn.d)

\* where Collect moves each object, and the document with every captured
\* reference moved along
Forward(h) ==
    LET items == RawTasks(h) IN
    [id \in ObjIds |->
        IF id = h[RootId].f["tasks"].n THEN 1
        ELSE IF \E j \in 1 .. Len(items) : items[j].n = id
             THEN 1 + CHOOSE j \in 1 .. Len(items) : items[j].n = id
             ELSE 0]

RECURSIVE MoveNode(_, _)
MoveNode(node, fw) ==
    IF node.k = "text" THEN node
    ELSE LET moved(v) == IF v.k = "fn" THEN Fn(v.s, Obj(fw[v.n], v.d)) ELSE v
         IN [node EXCEPT
               !.props = [x \in DOMAIN node.props |-> moved(node.props[x])],
               !.kids = [i \in DOMAIN node.kids |-> MoveNode(node.kids[i], fw)]]

\* the new-todo keydown handler with Enter and a non-blank value (app.js 87-97)
NewTodoKeydown(st, name) ==
    LET id == getTrap(st.heap, state, Fld("currentId")).n
    IN HandlerSet(UnshiftTask(HandlerSet(st, state, Fld("currentId"), Num(id + 1)),
                              id, name),
                  state, Fld("editingId"), Num(0))

\* the toggle-all click handler (app.js 113-116)
RECURSIVE ForEachSetCompleted(_, _, _, _)
ForEachSetCompleted(st, arr, k, b) ==
    IF k >= getTrap(st.heap, arr, LengthKey).n THEN st
    ELSE LET t == getTrap(st.heap, arr, Idx(k))
         IN ForEachSetCompleted(HandlerSet(st, t, Fld("completed"), Bool(b)),
                                arr, k + 1, b)

ToggleAll(st) ==
    LET tasks == TasksOf(st.heap)
        len == getTrap(st.heap, tasks, LengthKey).n
        allCompleted ==
            /\ len > 0
            /\ Len(FilterItems(st.heap, tasks, [p |-> "completed"], 0)) = len
    IN ForEachSetCompleted(st, TasksOf(st.heap), 0, ~allCompleted)

\* the handlers of one item (app.js 144-146, 150-152, 157-159, 168-179)
Toggle(st, task) ==
    HandlerSet(st, task, Fld("completed"),
               Bool(~Truthy(getTrap(st.heap, task, Fld("completed")))))

StartEdit(st, task) ==
    HandlerSet(st, state, Fld("editingId"), getTrap(st.heap, task, Fld("id")))

Destroy(st, task) ==
    FilterAssign(st, [p |-> "notId", id |-> getTrap(st.heap, task, Fld("id")).n])

EditCommit(st, task, text) ==
    LET s1 == HandlerSet(st, task, Fld("name"), Str(text))
    IN HandlerSet(s1, state, Fld("editingId"), Null)

EditCancel(st) == HandlerSet(st, state, Fld("editingId"), Null)

\* a callback that also renders by itself after the write
RouteChangeAndRender(st, hash) ==
    LET route == IF hash = "" THEN "/" ELSE hash
    IN update(HandlerSet([st EXCEPT !.route = route], state, Fld("filter"),
                         Str(routeToFilter(route))))

\* router.js handleRouteChange with app.js handleRouteChange as its callback
RouteChange(st, hash) ==
    LET route == IF hash = "" THEN "/" ELSE hash
    IN HandlerSet([st EXCEPT !.route = route], state, Fld("filter"),
                  Str(routeToFilter(route)))

\* the state once app.js has been loaded with an empty location.hash
AppInit ==
    /\ heap = InitialHeap
    /\ subscribers = <<"render">>
    /\ currentRoute = "/"
    /\ dom = mount("body", app(InitialHeap, "/"), <<>>, 0).kids
    /\ log = <<>>
    /\ hist = NoOp
    /\ epoch = 0
    /\ mnt = NoMount
    /\ events = 0
    /\ held = <<>>
    /\ routeChangeCallback = "app.handleRouteChange"
    /\ window = [hash |-> "", onhashchange |-> "handleRouteChange"]

\* the store an event's handler has left becomes the next state
Settle(name, st, val) ==
    /\ events < MaxEvents
    /\ events' = events + 1
    /\ heap' = Collect(st.heap)
    /\ dom' = [i \in DOMAIN st.dom |-> MoveNode(st.dom[i], Forward(st.heap))]
    /\ currentRoute' = st.route
    /\ log' = <<>>
    /\ hist' = [op |-> name, same |-> FALSE, deep |-> StoredDepth(heap) > 0,
                top |-> st.top, sets |-> st.sets, renders |-> st.renders,
                n |-> NumTasks(heap), initial |-> heap = InitialHeap, val |-> val,
                reads |-> st.reads]
    /\ window' = [window EXCEPT !.hash = IF st.route = "/" THEN "" ELSE st.route]
    /\ UNCHANGED <<subscribers, epoch, mnt, held, routeChangeCallback>>

KeydownNewTodo(name) ==
    /\ Len(dom) = 3
    /\ NumTasks(heap) < MaxTasks
    /\ heap[RootId].f["currentId"].n <= MaxTasks + 1
    /\ NumTasks(heap) > 0 => StoredDepth(heap) < MaxDepth
    /\ \E st \in {NewTodoKeydown(Start(heap), name)} : Settle("newTodo", st, Null)

ClickToggleAll ==
    /\ Len(dom) = 3
    /\ \E st \in {ToggleAll(Start(heap))} : Settle("toggleAll", st, Null)

ChangeToggle(i) ==
    LET task == Captured(ToggleBox(TodoList(dom)[i]).props["onchange"])
    IN \E st \in {Toggle(Start(heap), task)} :
          Settle("setCompleted", st, st.heap[task.n].f["completed"])

DblclickLabel(i) ==
    LET task == Captured(Label(TodoList(dom)[i]).props["ondblclick"])
    IN \E st \in {StartEdit(Start(heap), task)} : Settle("startEdit", st, Null)

ClickDestroy(i) ==
    LET task == Captured(DestroyButton(TodoList(dom)[i]).props["onclick"])
    IN /\ KeepsWithin(heap, [p |-> "notId",
                             id |-> getTrap(heap, task, Fld("id")).n])
       /\ \E st \in {Destroy(Start(heap), task)} : Settle("destroy", st, Null)

KeydownEdit(i, key, text) ==
    /\ EditBox(TodoList(dom)[i]).tag = "input"
    /\ LET task == Captured(EditBox(TodoList(dom)[i]).props["onkeydown"])
       IN \E st \in {IF key = "Enter" THEN EditCommit(Start(heap), task, text)
                     ELSE EditCancel(Start(heap))} :
             Settle("edit" \o key, st, Null)

BlurEdit(i, text) ==
    /\ EditBox(TodoList(dom)[i]).tag = "input"
    /\ LET task == Captured(EditBox(TodoList(dom)[i]).props["onblur"])
       IN \E st \in {EditCommit(Start(heap), task, text)} :
             Settle("editBlur", st, Null)

ClickClearCompleted ==
    /\ ClearButtonShown(dom)
    /\ KeepsWithin(heap, [p |-> "active"])
    /\ \E st \in {ClearCompleted(Start(heap))} : Settle("clearCompleted", st, Null)

HashChange(hash) ==
    /\ currentRoute # (IF hash = "" THEN "/" ELSE hash)
    /\ \E st \in {RouteChange(Start(heap), hash)} : Settle("route", st, Null)

\* state.tasks.push({id, name, completed: false}) and state.tasks[i].completed = b,
\* called on the exported state from outside the view
CallPush(name) ==
    /\ NumTasks(heap) < MaxTasks
    /\ \E st \in {PushTask(Start(heap), MaxOf(TaskIds(heap) \cup {0}) + 1, name)} :
          Settle("push", st, Null)

CallSetCompleted(i, b) ==
    \E st \in {SetCompleted(Start(heap), i, b)} : Settle("setCompleted", st, Bool(b))

AppNext ==
    \/ \E name \in Names : KeydownNewTodo(name)
    \/ ClickToggleAll
    \/ \E i \in DOMAIN TodoList(dom) : ChangeToggle(i)
    \/ \E i \in DOMAIN TodoList(dom) : DblclickLabel(i)
    \/ \E i \in DOMAIN TodoList(dom) : ClickDestroy(i)
    \/ \E i \in DOMAIN TodoList(dom), key \in {"Enter", "Escape"}, text \in EditNames :
          KeydownEdit(i, key, text)
    \/ \E i \in DOMAIN TodoList(dom), text \in EditNames : BlurEdit(i, text)
    \/ ClickClearCompleted
    \/ \E hash \in Hashes : HashChange(hash)
    \/ \E name \in Names : CallPush(name)
    \/ \E i \in 0 .. NumTasks(heap) - 1, b \in BOOLEAN : CallSetCompleted(i, b)

SpecApp == AppInit /\ [][AppNext]_vars

(***************************************************************************)
(* The to-do page driven by its user alone, to a list one longer than the  *)
(* store operations above produce: tasks are added, toggled, deleted and   *)
(* cleared through the handlers of the rendered page.                      *)
(***************************************************************************)
MaxListed == MaxTasks + 1

KeydownNewTodoListed(name) ==
    /\ Len(dom) = 3
    /\ NumTasks(heap) < MaxListed
    /\ NumTasks(heap) > 0 => StoredDepth(heap) < MaxDepth
    /\ \E st \in {NewTodoKeydown(Start(heap), name)} : Settle("newTodo", st, Null)

TasksNext ==
    \/ \E name \in Names : KeydownNewTodoListed(name)
    \/ ClickToggleAll
    \/ \E i \in DOMAIN TodoList(dom) : ChangeToggle(i)
    \/ \E i \in DOMAIN TodoList(dom) : ClickDestroy(i)
    \/ ClickClearCompleted
    \/ \E hash \in Hashes : HashChange(hash)

SpecTasks == AppInit /\ [][TasksNext]_vars

(***************************************************************************)
(* The page under every fragment that routeToFilter maps to a filter, with *)
(* tasks added and toggled so that the footer and its links are shown.     *)
(***************************************************************************)
LinkHashes == Hashes \cup {"all", "./active", "./completed"}

LinksNext ==
    \/ \E hash \in LinkHashes : HashChange(hash)
    \/ \E name \in Names : KeydownNewTodo(name)
    \/ \E i \in DOMAIN TodoList(dom) : ChangeToggle(i)
    \/ \E i \in DOMAIN TodoList(dom) : ClickDestroy(i)
    \/ ClickToggleAll

SpecLinks == AppInit /\ [][LinksNext]_vars

(***************************************************************************)
(* Loading the page: the three statements at the end of app.js run in      *)
(* order on a window with any fragment, and then the user drives the page. *)
(* mnt.at counts the statements run, and mnt.prev keeps, for each, the     *)
(* subscribers registered when it started and the writes and renders it    *)
(* made.                                                                   *)
(***************************************************************************)
\* a module that subscribes before it starts the router
LoadOrderSubscribeFirst == <<"subscribe", "initRouter", "update">>

\* initRouter(handleRouteChange); subscribe(() => update()); update()
LoadOrder == <<"initRouter", "subscribe", "update">>

LoadInit ==
    /\ heap = InitialHeap
    /\ subscribers = <<>>
    /\ currentRoute = ""
    /\ dom = <<>>
    /\ log = <<>>
    /\ hist = NoOp
    /\ epoch = 0
    /\ mnt = [NoMount EXCEPT !.root = "load"]
    /\ events = 0
    /\ held = <<>>
    /\ routeChangeCallback = "null"
    /\ window \in {[hash |-> h, onhashchange |-> "null"] : h \in Hashes}

\* the statement to run next, if the module has not finished loading
NextStatement(name) ==
    /\ mnt.at < Len(LoadOrder)
    /\ LoadOrder[mnt.at + 1] = name

\* what a statement of the module did, added to the record of the load
Loaded(name, st) ==
    /\ heap' = Collect(st.heap)
    /\ dom' = st.dom
    /\ currentRoute' = st.route
    /\ hist' = [NoOp EXCEPT !.op = name, !.sets = st.sets, !.renders = st.renders,
                            !.reads = st.reads]
    /\ mnt' = [mnt EXCEPT !.at = @ + 1,
                          !.prev = Append(@, [step |-> name, subs |-> Len(subscribers),
                                              sets |-> st.sets, renders |-> st.renders])]
    /\ UNCHANGED <<log, epoch, events, held>>

\* initRouter(handleRouteChange) (app.js 239, router.js 5-13)
LoadInitRouter ==
    /\ NextStatement("initRouter")
    /\ routeChangeCallback' = "app.handleRouteChange"
    /\ window' = [window EXCEPT !.onhashchange = "handleRouteChange"]
    /\ \E st \in {RouteChange(Start(heap), window.hash)} : Loaded("initRouter", st)
    /\ UNCHANGED subscribers

\* subscribe(() => update()) (app.js 240)
LoadSubscribe ==
    /\ NextStatement("subscribe")
    /\ subscribers' = Append(subscribers, "render")
    /\ Loaded("subscribe", Start(heap))
    /\ UNCHANGED <<routeChangeCallback, window>>

\* update() (app.js 241)
LoadUpdate ==
    /\ NextStatement("update")
    /\ \E st \in {update(Start(heap))} : Loaded("update", st)
    /\ UNCHANGED <<subscribers, routeChangeCallback, window>>

LoadNext ==
    \/ LoadInitRouter
    \/ LoadSubscribe
    \/ LoadUpdate
    \/ mnt.at = Len(LoadOrder) /\ TasksNext

SpecLoad == LoadInit /\ [][LoadNext]_vars

(***************************************************************************)
(* Properties of the application.                                          *)
(***************************************************************************)
\* the class tokens of a rendered item include 'completed'
HasCompletedClass(li) == li.attrs["class"] \in {"completed ", "completed editing"}
\* the text an item displays and whether its checkbox is checked
Shows(li, name) == Label(li).kids = <<TextNode(name, 0)>>
Checked(li) == Truthy(ToggleBox(li).props["checked"])

\* C6: from the initial state with the render function as the one subscriber,
\* state.tasks.push({id: 1, name: 'buy milk', completed: false}) calls the
\* render function exactly once, and the list then holds exactly one item,
\* which shows 'buy milk' and is unchecked.
C6_PushRendersOnce ==
    (hist.op = "push" /\ hist.initial) =>
        /\ hist.renders = 1
        /\ Len(TodoList(dom)) = 1
        /\ Shows(TodoList(dom)[1], "buy milk")
        /\ ~Checked(TodoList(dom)[1])

\* C7: with exactly one task present and no Proxy in storage, the write
\* task.completed = true through a handle calls the render subscriber exactly
\* once; afterwards the rendered item has the class 'completed', the list is
\* empty under filter 'active', and under filter 'completed' it holds the item.
C7_CompletingOneTask ==
    (/\ hist.op = "setCompleted"
     /\ hist.val = Bool(TRUE)
     /\ hist.n = 1
     /\ ~hist.deep) =>
        /\ hist.renders = 1
        /\ heap[RootId].f["filter"] = Str("active") => TodoList(dom) = <<>>
        /\ heap[RootId].f["filter"] \in {Str("all"), Str("completed")} =>
              /\ Len(TodoList(dom)) = 1
              /\ HasCompletedClass(TodoList(dom)[1])
              /\ Checked(TodoList(dom)[1])

C7_Witness ==
    /\ hist.op = "setCompleted"
    /\ hist.val = Bool(TRUE)
    /\ hist.n = 1
    /\ ~hist.deep
    /\ hist.renders = 1
    /\ heap[RootId].f["filter"] = Str("completed")
    /\ Len(TodoList(dom)) = 1
    /\ HasCompletedClass(TodoList(dom)[1])

C29_RouteChangeWritesFilterOnly ==
    [][(hist'.op = "route" /\ events' = events + 1) =>
          /\ \A id \in ObjIds \ {RootId} : heap'[id] = heap[id]
          /\ \A x \in {"tasks", "editingId", "currentId"} :
                heap'[RootId].f[x] = heap[RootId].f[x]
          /\ heap'[RootId].f["filter"] = Str(routeToFilter(currentRoute'))
          /\ hist'.top = 1 /\ hist'.sets = 1
          /\ hist'.renders = hist'.sets
          /\ subscribers' = subscribers
          /\ routeChangeCallback' = routeChangeCallback]_vars

C29_Witness ==
    /\ hist.op = "route"
    /\ NumTasks(heap) = 1
    /\ currentRoute = "completed"
    /\ heap[RootId].f["filter"] = Str("completed")
    /\ hist.renders = 1
    /\ TodoList(dom) = <<>>

\* C30: any mutation of the reactive state tree notifies the subscribers at least
\* once: after a field write, after push, unshift and pop on the task array, and
\* after removing a field that the root mapping had, every subscriber was called
C30_EveryMutationNotifies ==
    (/\ hist.op \in {"setFilter", "setCompleted", "push", "unshift", "pop",
                     "deleteField"}
     /\ hist.op = "deleteField" => ~hist.same)
    => \A i \in 1 .. Len(subscribers) : CallsOf(log, i) >= 1

\* the same, for every mutation but the removal of a field
C30_WritesAndArrayMethodsNotify ==
    hist.op \in {"setFilter", "setCompleted", "push", "unshift", "pop"}
    => \A i \in 1 .. Len(subscribers) : CallsOf(log, i) >= 1

C30_PopWitness ==
    /\ hist.op = "pop" /\ hist.n = 1 /\ NumTasks(heap) = 0
    /\ subscribers = <<"count">> /\ CallsOf(log, 1) = 1

\* C32: the storage of the store never contains a reactive wrapper: after any
\* sequence of operations, including those that write back values read from the
\* store, every task the raw task array holds is a plain object
C32_StorageHoldsPlainObjects ==
    StoredDepth(heap) = 0

\* the same, for operations that write only values the store was not read for
C32_FreshValuesStoredPlain ==
    (hist.op \in {"setFilter", "setCompleted", "push"} /\ ~hist.deep)
        => StoredDepth(heap) = 0

NoDuplicate(ids) == \A i, j \in DOMAIN ids : i # j => ids[i] # ids[j]

\* C33: every invocation of the render subscriber, also one that runs in the
\* middle of an operation of several writes such as state.tasks.unshift(newTask)
\* on a non-empty list, reads a task list in which no task id occurs twice
C33_RenderReadsDistinctIds ==
    \A r \in DOMAIN hist.reads : NoDuplicate(hist.reads[r])

\* the same, for the renders of every handler but that of new-todo
C33_OtherHandlersReadDistinctIds ==
    hist.op # "newTodo" => \A r \in DOMAIN hist.reads : NoDuplicate(hist.reads[r])

StatementsDone == mnt.root = "load" /\ mnt.at = Len(LoadOrder)
RendersOfLoad(k) ==
    Cardinality({<<i, j>> \in (DOMAIN mnt.prev) \X (1 .. k) : j <= mnt.prev[i].renders})

\* C34: at application start-up mount runs exactly once: the initial route
\* callback writes state.filter before any subscriber is registered, so that
\* write causes no render, and the only render is the explicit update() that
\* follows subscribe; it shows the filter the route selected
C34_OneMountAtStartUp ==
    StatementsDone =>
        /\ RendersOfLoad(MaxEvents) = 1
        /\ \A i \in DOMAIN mnt.prev :
              /\ mnt.prev[i].step = "initRouter"
                    => /\ mnt.prev[i].subs = 0
                       /\ mnt.prev[i].sets = 1
                       /\ mnt.prev[i].renders = 0
              /\ mnt.prev[i].step = "subscribe" => mnt.prev[i].renders = 0
              /\ mnt.prev[i].step = "update"
                    => mnt.prev[i].subs = 1 /\ mnt.prev[i].renders = 1
        /\ events = 0 =>
              /\ heap[RootId].f["filter"] = Str(routeToFilter(currentRoute))
              /\ dom = Rendering(app(heap, currentRoute), 0)

C34_Witness ==
    /\ StatementsDone
    /\ events = 0
    /\ window.hash = "completed"
    /\ heap[RootId].f["filter"] = Str("completed")
    /\ subscribers = <<"render">>
    /\ Len(dom) = 3
    /\ hist.op = "update" /\ hist.renders = 1

\* C35: after every completed user action of the to-do application (add,
\* delete, clear completed, toggle, route change, in any order and number), the
\* tasks in state.tasks have pairwise distinct ids, every id is at least 1 (so
\* the editingId value 0 matches no task), and state.currentId is greater than
\* every task id
C35_IdsDistinctAndBelowCounter ==
    /\ NoDuplicate(IdsRead(heap))
    /\ \A i \in DOMAIN IdsRead(heap) :
          /\ IdsRead(heap)[i].k = "num"
          /\ IdsRead(heap)[i].n >= 1
          /\ IdsRead(heap)[i].n < heap[RootId].f["currentId"].n

C35_Witness ==
    /\ hist.op = "newTodo"
    /\ hist.n = 1
    /\ IdsRead(heap) = <<Num(2), Num(1)>>
    /\ heap[RootId].f["currentId"] = Num(3)
    /\ Len(TodoList(dom)) = 2

\* a task was added after clear-completed had set the counter back
C35_ReuseWitness ==
    /\ hist.op = "newTodo"
    /\ events = 4
    /\ IdsRead(heap) = <<Num(1)>>
    /\ heap[RootId].f["currentId"] = Num(2)

FilterNames == {"all", "active", "completed"}
\* the filter link for f in the rendered footer carries the class 'selected'
Highlighted(d, f) ==
    LET k == CASE f = "all" -> 1 [] f = "active" -> 2 [] f = "completed" -> 3
    IN InfoFooter(d).kids[2].kids[k].kids[1].attrs["class"] = "selected"

\* C36: the highlighted filter link agrees with the active filter: for every
\* route the router has delivered for which state.filter is not 'notfound', and
\* every f of all, active, completed, isActiveRoute(f) is true exactly when
\* state.filter is f (and the footer, when shown, highlights that link)
C36_HighlightAgreesWithFilter ==
    heap[RootId].f["filter"] # Str("notfound") =>
        \A f \in FilterNames :
            /\ isActiveRoute(currentRoute, f) <=> heap[RootId].f["filter"] = Str(f)
            /\ InfoFooter(dom).k = "el" =>
                  (Highlighted(dom, f) <=> heap[RootId].f["filter"] = Str(f))

\* the same, for the routes that are the name of a filter, or empty
C36_PlainRoutesAgree ==
    currentRoute \in {"/", "all", "active", "completed"} =>
        \A f \in FilterNames :
            /\ isActiveRoute(currentRoute, f) <=> heap[RootId].f["filter"] = Str(f)
            /\ InfoFooter(dom).k = "el" =>
                  (Highlighted(dom, f) <=> heap[RootId].f["filter"] = Str(f))

\* C37: the router records the new route before it invokes the callback:
\* inside every onChange(route) call, the one initRouter makes included,
\* isActiveRoute(route) returns true for the route being delivered
C37_RouteRecordedBeforeCallback ==
    hist.op \in {"initRouter", "navigate"} =>
        \A k \in DOMAIN hist.val :
            isActiveRoute(hist.val[k].current, hist.val[k].route)

C37_Witness ==
    /\ hist.op = "navigate"
    /\ hist.val = <<[route |-> "completed", current |-> "completed"]>>
    /\ currentRoute = "completed"
    /\ routeChangeCallback = "cbA"
    /\ log[Len(log)] = [t |-> "call", cb |-> "cbA", route |-> "completed"]

\* the callbacks invoked by the step at position j of the run
CallsOfStep(j) ==
    {k \in DOMAIN log : /\ k > j
                        /\ log[k].t = "call"
                        /\ \A m \in (j + 1) .. k : log[m].t = "call"}

\* C38: calling initRouter again replaces the callback rather than adding one:
\* after any number of initRouter calls the router holds the callback of the
\* most recent call, and each navigation invokes that callback, exactly once,
\* and no other
C38_InitRouterReplacesCallback ==
    \A j \in DOMAIN log :
        InitsBefore(j + 1) # {} =>
            LET latest == log[MaxOf(InitsBefore(j + 1))].cb
            IN /\ j = Len(log) => routeChangeCallback = latest
               /\ log[j].t = "nav" =>
                     /\ Cardinality(CallsOfStep(j)) = 1
                     /\ \A k \in CallsOfStep(j) : log[k].cb = latest

C38_Witness ==
    /\ Len(log) = 6
    /\ log[1].t = "init" /\ log[1].cb = "cbA"
    /\ log[3].t = "init" /\ log[3].cb = "cbB"
    /\ log[5].t = "nav"
    /\ log[6] = [t |-> "call", cb |-> "cbB", route |-> log[5].route]
    /\ routeChangeCallback = "cbB"

====
